---------------------------- MODULE Spec2Model ----------------------------
(***************************************************************************)
(* State-machine model of the lock-in amplifier simulator: the simulation  *)
(* worker (producer), the SharedArrayBuffer double buffer, and the         *)
(* useSimulation hook (controller / consumer).                             *)
(*                                                                         *)
(* Abstractions.  Floating-point signal values are not computed.  A sample *)
(* pushed into a ring is the pair (n, cfg): n is the value of              *)
(* sampleCounter when the sample was produced and cfg the coefficient      *)
(* revisions of the three filters it went through.  Every filtered value   *)
(* is taken as one unit, so iSum and qSum count the accumulated samples,   *)
(* and a biquad delay element is 0 (cleared) or 1 (has seen a sample).     *)
(* The clock is read in units of 1/3 ms, which makes the snapshot interval *)
(* of 1000/30 ms the integer 100.                                          *)
(***************************************************************************)
EXTENDS Integers, Sequences, FiniteSets, TLC

(***************************************************************************)
(* Bounds of the model.                                                    *)
(***************************************************************************)
\* the clock horizon of Spec, in clock units
MaxNow == 300
\* the clock horizon of SpecPacing, in clock units
MaxNowPacing == 2500
\* the clock horizon of SpecApp, in clock units
MaxNowApp == 150
\* params.bufferSize of the Start message: the capacity of each ring
RingCapacity == 4
\* maxDisplayPoints of the Init message: the length of a block's channel
SnapshotPoints == 2
\* messages the environment delivers to the worker: in Spec, in SpecPacing
MaxMsgs == 3
MaxMsgsPacing == 2
\* parameter changes and run toggles the user makes in SpecApp
MaxUserActions == 2
\* SpecRing: the largest capacity, the most pushes between two emptyings, the
\* longest pushMany argument and the largest maxPoints
MaxCapacity == 4
MaxPushes == 6
MaxBatch == 2
MaxPoints == 3
\* SpecPhase: bpfPhaseOffset ranges over the multiples of 45 degrees up to
\* this many, either way
MaxOffsetSteps == 8
\* SpecOscillator: the sample rate, the largest frequency (both in Hz; the
\* frequency passes the sample rate) and the most calls on one object
OscSampleRate == 4
MaxFrequency == 6
MaxCalls == 4
\* SpecTrigger: the longest buffers and the largest time value
MaxSamples == 3
MaxTime == 2

(***************************************************************************)
(* Program constants.                                                      *)
(***************************************************************************)
SIGNAL_COUNT == 13
\* UPDATE_INTERVAL_MS = 1000 / 30 ms, in clock units of 1/3 ms
UPDATE_INTERVAL == 100
\* the per-tick cap Math.min(samplesToProcess, 2000)
MAX_SAMPLES_PER_TICK == 2000
\* deltaTime / 1000 converts ms to s: 1000 ms of 3 clock units
UNITS_PER_SECOND == 3000

\* null: a value that equals no object of the model
NULL == [null |-> TRUE]

\* bpfPhaseOffset = 0
ZeroPhase == [sections |-> <<>>, at |-> 0, fs |-> 0]

\* the order in which writeToSharedBuffer writes the channels
SIGNAL_NAMES ==
  << "reference", "modulating", "modulatingPlusNoise", "sensorClean",
     "noise", "sensor", "afterBpf", "mixerI", "mixerQ", "iOutput",
     "qOutput", "signedOutput", "time" >>

Channels == { SIGNAL_NAMES[i] : i \in 1..SIGNAL_COUNT }

Min(a, b) == IF a <= b THEN a ELSE b

\* Math.ceil(a / b) for a >= 0, b > 0
Ceil(a, b) == (a + b - 1) \div b

\* Object.assign(target, source): the supplied keys overwrite, the rest stay
ObjectAssign(target, source) ==
  [k \in DOMAIN target \cup DOMAIN source |->
     IF k \in DOMAIN source THEN source[k] ELSE target[k]]

(***************************************************************************)
(* CircularBuffer                                                          *)
(***************************************************************************)
\* a Float32Array element that was never written, or was cleared: 0
ZeroSample == [n |-> -1, cfg |-> <<>>]

\* variant for C15: a push on a full buffer is dropped
PushKeepOldest(r, value) ==
  IF r.length < r.capacity
    THEN [ buffer     |-> [r.buffer EXCEPT ![r.writeIndex] = value],
           writeIndex |-> (r.writeIndex + 1) % r.capacity,
           length     |-> r.length + 1,
           capacity   |-> r.capacity ]
    ELSE r

NewCircularBuffer(capacity) ==
  [ buffer     |-> [i \in 0..(capacity - 1) |-> ZeroSample],
    writeIndex |-> 0,
    length     |-> 0,
    capacity   |-> capacity ]

Push(r, value) ==
  [ buffer     |-> [r.buffer EXCEPT ![r.writeIndex] = value],
    writeIndex |-> (r.writeIndex + 1) % r.capacity,
    length     |-> IF r.length < r.capacity THEN r.length + 1 ELSE r.length,
    capacity   |-> r.capacity ]

Clear(r) ==
  [ buffer     |-> [i \in DOMAIN r.buffer |-> ZeroSample],
    writeIndex |-> 0,
    length     |-> 0,
    capacity   |-> r.capacity ]

\* pushMany: for (let i = 0; i < values.length; i++) this.push(values[i])
RECURSIVE PushMany(_, _)
PushMany(r, values) ==
  IF values = << >> THEN r
  ELSE PushMany(Push(r, Head(values)), Tail(values))

\* toArray: a new array of _length entries, oldest first
ToArray(r) ==
  IF r.length < r.capacity
    THEN [i \in 0..(r.length - 1) |-> r.buffer[i]]
    ELSE LET firstLength == r.capacity - r.writeIndex
         IN  [i \in 0..(r.length - 1) |->
                IF i < firstLength THEN r.buffer[r.writeIndex + i]
                                   ELSE r.buffer[i - firstLength]]

\* resize: a new zero-filled array of the new capacity
Resize(r, newCapacity) == NewCircularBuffer(newCapacity)

Max(a, b) == IF a > b THEN a ELSE b

\* getRecent(count)
GetRecent(r, count) ==
  LET n == Min(count, r.length)
  IN  IF r.length < r.capacity
        THEN LET start == Max(0, r.length - n)
             IN  [i \in 0..(n - 1) |-> r.buffer[start + i]]
        ELSE LET readIndex == (r.writeIndex - n + r.capacity) % r.capacity
             IN  [i \in 0..(n - 1) |-> r.buffer[(readIndex + i) % r.capacity]]

\* toDecimatedArray(maxPoints): a new array of the decimated entries
ToDecimatedArray(r, maxPoints) ==
  IF r.length = 0 THEN << >>
  ELSE LET decimationFactor == Ceil(r.capacity, maxPoints)
           outputLength     == Ceil(r.length, decimationFactor)
       IN  IF r.length < r.capacity
             THEN [i \in 0..(outputLength - 1) |-> r.buffer[i * decimationFactor]]
             ELSE [i \in 0..(outputLength - 1) |->
                     r.buffer[(r.writeIndex + i * decimationFactor) % r.capacity]]

\* the number of entries toDecimatedArrayInto writes and returns
DecimatedLength(r, maxPoints) ==
  IF r.length = 0 THEN 0 ELSE Ceil(r.length, Ceil(r.capacity, maxPoints))

\* variant for C16: the stride is taken from the current length
ToDecimatedArrayIntoByLength(r, target, maxPoints) ==
  LET decimationFactor == Max(1, Ceil(r.length, maxPoints))
      outputLength     == DecimatedLength(r, maxPoints)
      start            == IF r.length < r.capacity THEN 0 ELSE r.writeIndex
      src(i) == r.buffer[(start + i * decimationFactor) % r.capacity]
  IN  [i \in DOMAIN target |-> IF i < outputLength THEN src(i) ELSE target[i]]

\* target after toDecimatedArrayInto(target, maxPoints); a typed array drops
\* a store past its end
ToDecimatedArrayInto(r, target, maxPoints) ==
  LET decimationFactor == Ceil(r.capacity, maxPoints)
      outputLength     == DecimatedLength(r, maxPoints)
      src(i) == IF r.length < r.capacity
                  THEN r.buffer[i * decimationFactor]
                  ELSE r.buffer[(r.writeIndex + i * decimationFactor) % r.capacity]
  IN  [i \in DOMAIN target |-> IF i < outputLength THEN src(i) ELSE target[i]]


(***************************************************************************)
(* Filter design and the biquad filters                                    *)
(***************************************************************************)
\* The coefficients of a section are kept symbolically, as the design call
\* that produced them.
DesignBandPass2ndOrder(centerFreq, bandwidth100, sampleRate) ==
  [kind |-> "bp2", f |-> centerFreq, bw100 |-> bandwidth100, fs |-> sampleRate]

\* bandwidths are carried in hundredths, so that bandwidth * 1.55 is an integer
DesignBandPassFilterSections(centerFreq, bandwidth, sampleRate, order) ==
  IF order = 1 \/ order = 2
    THEN << DesignBandPass2ndOrder(centerFreq, bandwidth * 100, sampleRate) >>
    ELSE << DesignBandPass2ndOrder(centerFreq, bandwidth * 155, sampleRate),
            DesignBandPass2ndOrder(centerFreq, bandwidth * 155, sampleRate) >>

\* Q values in ten-thousandths
GetButterworthQValues(order) ==
  CASE order = 1 -> <<>>
    [] order = 2 -> << 7071 >>
    [] order = 4 -> << 5412, 13066 >>
    [] OTHER     -> << 7071 >>

DesignLowPassFilter(cutoffFreq, sampleRate, order) ==
  IF order = 1
    THEN << [kind |-> "lp1", f |-> cutoffFreq, fs |-> sampleRate] >>
    ELSE LET q == GetButterworthQValues(order)
         IN  [i \in 1..Len(q) |->
                [kind |-> "lp2", f |-> cutoffFreq, fs |-> sampleRate, Q |-> q[i]]]

\* bandPassPhaseResponse: the cascaded phase of the designed sections at
\* atFrequency, kept symbolically
BandPassPhaseResponse(centerFreq, bandwidth, sampleRate, order, atFrequency) ==
  [ sections |-> DesignBandPassFilterSections(centerFreq, bandwidth, sampleRate, order),
    at       |-> atFrequency,
    fs       |-> sampleRate ]

ZeroState == [x1 |-> 0, x2 |-> 0, y1 |-> 0, y2 |-> 0]

NewBiquadFilter(coefficients) == [coeffs |-> coefficients, state |-> ZeroState]

\* BiquadFilter.process: the delay line shifts and takes the new sample
BiquadProcess(section) ==
  [section EXCEPT !.state = [x1 |-> 1, x2 |-> section.state.x1,
                             y1 |-> 1, y2 |-> section.state.y1]]

BiquadReset(section) == [section EXCEPT !.state = ZeroState]

NewCascade(coefficients) ==
  [i \in 1..Len(coefficients) |-> NewBiquadFilter(coefficients[i])]

\* CascadedBiquadFilter.process: for (const section of this.sections)
RECURSIVE CascadeProcessFrom(_, _)
CascadeProcessFrom(sections, i) ==
  IF i > Len(sections) THEN sections
  ELSE CascadeProcessFrom([sections EXCEPT ![i] = BiquadProcess(@)], i + 1)

CascadeProcess(sections) == CascadeProcessFrom(sections, 1)

CascadeReset(sections) == [i \in 1..Len(sections) |-> BiquadReset(sections[i])]

\* CascadedBiquadFilter.setCoefficients: rebuilt when the section count
\* changes, else the coefficients are replaced and the state is kept
CascadeSetCoefficients(sections, coefficients) ==
  IF Len(coefficients) # Len(sections)
    THEN NewCascade(coefficients)
    ELSE [i \in 1..Len(sections) |-> [sections[i] EXCEPT !.coeffs = coefficients[i]]]

\* rev counts the updateCoefficients calls on the filter object (history)
NewLowPassFilter(cutoffFreq, sampleRate, order) ==
  [ cutoffFreq |-> cutoffFreq, sampleRate |-> sampleRate, order |-> order,
    filter |-> NewCascade(DesignLowPassFilter(cutoffFreq, sampleRate, order)),
    rev |-> 0 ]

LpfUpdateCoefficients(f) ==
  [f EXCEPT !.filter = CascadeSetCoefficients(
                         f.filter, DesignLowPassFilter(f.cutoffFreq, f.sampleRate, f.order)),
            !.rev = f.rev + 1]

LpfSetCutoffFrequency(f, freq) ==
  IF freq = f.cutoffFreq THEN f
  ELSE LpfUpdateCoefficients([f EXCEPT !.cutoffFreq = freq])

LpfSetOrder(f, order) ==
  IF order = f.order THEN f
  ELSE LpfUpdateCoefficients([f EXCEPT !.order = order])

NewBandPassFilter(centerFreq, bandwidth, sampleRate, order) ==
  [ centerFreq |-> centerFreq, bandwidth |-> bandwidth,
    sampleRate |-> sampleRate, order |-> order,
    filter |-> NewCascade(
                 DesignBandPassFilterSections(centerFreq, bandwidth, sampleRate, order)),
    rev |-> 0 ]

BpfUpdateCoefficients(f) ==
  [f EXCEPT !.filter = CascadeSetCoefficients(
                         f.filter,
                         DesignBandPassFilterSections(
                           f.centerFreq, f.bandwidth, f.sampleRate, f.order)),
            !.rev = f.rev + 1]

BpfSetCenterFrequency(f, freq) ==
  IF freq = f.centerFreq THEN f
  ELSE BpfUpdateCoefficients([f EXCEPT !.centerFreq = freq])

BpfSetBandwidth(f, bw) ==
  IF bw = f.bandwidth THEN f
  ELSE BpfUpdateCoefficients([f EXCEPT !.bandwidth = bw])

BpfSetOrder(f, order) ==
  IF order = f.order THEN f
  ELSE BpfUpdateCoefficients([f EXCEPT !.order = order])

\* LowPassFilter.process / BandPassFilter.process
FilterProcess(f) == [f EXCEPT !.filter = CascadeProcess(f.filter)]

\* LowPassFilter.reset / BandPassFilter.reset
FilterReset(f) == [f EXCEPT !.filter = CascadeReset(f.filter)]

FilterStateIsZero(f) == \A i \in 1..Len(f.filter) : f.filter[i].state = ZeroState

(***************************************************************************)
(* Oscillator. A phase is a whole number of steps of 2 pi / sampleRate, so *)
(* that 2 pi is sampleRate steps and a frequency of f Hz advances f steps. *)
(***************************************************************************)
NewOscillator(sampleRate) == [phase |-> 0, sampleRate |-> sampleRate, calls |-> 0]

\* this.phase += (2 * Math.PI * frequency) / this.sampleRate;
\* if (this.phase >= 2 * Math.PI) this.phase -= 2 * Math.PI
AdvancePhase(phase, frequency, sampleRate) ==
  LET advanced == phase + frequency
  IN  IF advanced >= sampleRate THEN advanced - sampleRate ELSE advanced

\* sine, square: the value is read at the current phase, then advancePhase
OscillatorCall(o, frequency) ==
  [o EXCEPT !.phase = AdvancePhase(o.phase, frequency, o.sampleRate),
            !.calls = o.calls + 1]

\* Oscillator.reset
OscillatorReset(o) == [o EXCEPT !.phase = 0]

\* InterfererGenerator.generate: every phase advances by its frequency
Generate(b) ==
  [b EXCEPT !.phases = [i \in DOMAIN b.phases |->
                          AdvancePhase(b.phases[i], b.interferers[i], b.sampleRate)],
            !.calls = b.calls + 1]

(***************************************************************************)
(* InterfererGenerator                                                     *)
(***************************************************************************)
\* A phase drawn by Math.random() is the pair (seed, i): seed numbers the
\* rebuild that drew it, so a phase that survives an update is told from a
\* fresh one.  The advance of the phases per sample is not modelled.
NewInterfererGenerator(sampleRate) ==
  [interferers |-> <<>>, phases |-> <<>>, sampleRate |-> sampleRate]

SameFrequencies(a, b) ==
  /\ Len(a) = Len(b)
  /\ \A i \in 1..Len(a) : a[i].frequency = b[i].frequency

SetInterferers(gen, interferers, seed) ==
  IF SameFrequencies(interferers, gen.interferers)
    THEN [gen EXCEPT !.interferers =
            [i \in 1..Len(gen.interferers) |->
               [gen.interferers[i] EXCEPT !.amplitude = interferers[i].amplitude]]]
    ELSE [gen EXCEPT
            !.interferers = [i \in 1..Len(interferers) |->
                               [frequency |-> interferers[i].frequency,
                                amplitude |-> interferers[i].amplitude,
                                phase     |-> <<seed, i>>]],
            !.phases = [i \in 1..Len(interferers) |-> <<seed, i>>]]

(***************************************************************************)
(* State                                                                   *)
(***************************************************************************)
VARIABLES
  \* simulation.worker.ts: module state
  isRunning, params, simulationTimeoutId, sharedViews, maxDisplayPoints,
  referenceOsc, modulatingOsc, noiseGen, interfererGen, bandPassFilter,
  lowPassFilterI, lowPassFilterQ, mixer, buffers,
  sampleCounter, lastSampleTime, lastUpdateTime, iSum, qSum, avgCount,
  bpfPhaseOffset,
  \* the worker's event loop: where the running task stands, the locals of
  \* simulationLoop, and the pending timeouts no variable refers to any more
  pc, now, writeBuffer, dataLength, chan, orphanTimers,
  \* the SharedArrayBuffer: the flag and the two blocks
  flag, blocks,
  \* messages in flight: main -> worker, worker -> main
  inbox, outbox,
  \* useSimulation and the stores on the main thread
  mounted, store, storeIsRunning, storeBuffers, storeOutputs,
  \* history: which snapshot wrote each entry of a block, the snapshots
  \* started and the one last published, the phase draws, the number of
  \* messages the worker has handled with the last of them, and the user's
  \* actions
  stamp, snapSeq, published, phaseSeed, handled, userActions,
  \* objects exercised on their own, apart from the worker: a CircularBuffer
  \* with the values pushed since it was last emptied (history) and the
  \* result of the last read
  ring, pushed, out,
  \* an Oscillator and an InterfererGenerator, each with the number of calls
  \* made on it (history)
  osc, bank,
  \* the oscilloscope trigger of TimeScaleControl and the frame it looks at,
  \* the spectrum analyser, the configuration stores, the DUT generators
  scope, frame, analyser, settings, dut

workerVars ==
  << isRunning, params, sharedViews, maxDisplayPoints, lastSampleTime,
     lastUpdateTime >>

dspVars ==
  << referenceOsc, modulatingOsc, noiseGen, interfererGen, bandPassFilter,
     lowPassFilterI, lowPassFilterQ, mixer, buffers, sampleCounter,
     iSum, qSum, avgCount, bpfPhaseOffset, phaseSeed >>

loopVars ==
  << pc, now, writeBuffer, dataLength, chan, simulationTimeoutId, orphanTimers >>

sharedVars == << flag, blocks, stamp, snapSeq, published >>

mainVars == << mounted, store, storeIsRunning, storeBuffers, storeOutputs, userActions >>

systemVars ==
  << workerVars, dspVars, loopVars, sharedVars, inbox, outbox, mainVars, handled >>

uiVars == << scope, frame, analyser, settings, dut >>

unitVars == << ring, pushed, out, osc, bank, uiVars >>

vars == << systemVars, unitVars >>

(***************************************************************************)
(* Parameters and messages                                                 *)
(***************************************************************************)
Interferer(f, a) == [frequency |-> f, amplitude |-> a]

\* the stores' values when the model starts, except for the engine sizes and
\* one interferer, so that an amplitude-only change exists
DefaultSignalSource ==
  [ referenceFrequency    |-> 10,
    referenceAmplitude    |-> 1,
    modulatingFrequency   |-> 1,
    modulationIndex       |-> 1,
    phaseShift            |-> 0,
    sensorOutputAmplitude |-> 1,
    whiteNoiseAmplitude   |-> 1,
    interferers           |-> << Interferer(5, 1) >> ]

DefaultBandPassFilter ==
  [enabled |-> TRUE, centerFrequency |-> 10, bandwidth |-> 5, order |-> 2]

DefaultLowPassFilter == [cutoffFrequency |-> 1, order |-> 2]

\* SimulationParams as buildParams assembles them
SimulationParams(signalSource, bpf, lpf, mode, sampleRate) ==
  [ signalSource   |-> signalSource,
    bandPassFilter |-> bpf,
    lowPassFilter  |-> lpf,
    mixer          |-> [mode |-> mode],
    sampleRate     |-> sampleRate,
    bufferSize     |-> RingCapacity ]

\* 60 samples/s: one sample per 50 clock units, two per snapshot interval
DefaultParams ==
  SimulationParams(DefaultSignalSource, DefaultBandPassFilter,
                   DefaultLowPassFilter, "analog", 60)

\* 3000 samples/s: one sample per clock unit
PacingParams ==
  SimulationParams(DefaultSignalSource, DefaultBandPassFilter,
                   DefaultLowPassFilter, "analog", 3000)

InitMessage == [type |-> "init", maxDisplayPoints |-> SnapshotPoints]

StartMessage(p) == [type |-> "start", params |-> p]

StopMessage == [type |-> "stop"]

UpdateParamsMessage(partial) == [type |-> "updateParams", params |-> partial]

\* the full-parameter message of the controller after an amplitude-only edit
AmplitudeEdited(p) ==
  [p EXCEPT !.signalSource.interferers =
     [i \in 1..Len(p.signalSource.interferers) |->
        [p.signalSource.interferers[i] EXCEPT !.amplitude = 2]]]

\* Partial<SimulationParams> values the environment of Spec sends
PartialParams ==
  { [signalSource |-> [interferers |-> << Interferer(5, 2) >>]],
    [signalSource |-> [interferers |-> << Interferer(6, 1) >>]],
    [signalSource |-> [interferers |-> <<>>]],
    [signalSource |-> [referenceFrequency |-> 20]],
    [signalSource |-> [modulatingFrequency |-> 2]],
    [signalSource |-> [phaseShift |-> 90]],
    [bandPassFilter |-> [centerFrequency |-> 20]],
    [bandPassFilter |-> [enabled |-> FALSE]],
    [lowPassFilter |-> [cutoffFrequency |-> 2]],
    [lowPassFilter |-> [order |-> 4]],
    [mixer |-> [mode |-> "digital"]],
    AmplitudeEdited(DefaultParams) }

(***************************************************************************)
(* The worker: initializeDSP, cleanupDSP, updateParams                     *)
(***************************************************************************)
BufferSet(capacity) == [ch \in Channels |-> NewCircularBuffer(capacity)]

InitializeDSP(p) ==
  /\ referenceOsc' = [sampleRate |-> p.sampleRate]
  /\ modulatingOsc' = [sampleRate |-> p.sampleRate]
  /\ noiseGen' = [spareGaussian |-> FALSE]
  /\ interfererGen' = SetInterferers(NewInterfererGenerator(p.sampleRate),
                                     p.signalSource.interferers, phaseSeed + 1)
  /\ phaseSeed' = phaseSeed + 1
  /\ bandPassFilter' = NewBandPassFilter(p.bandPassFilter.centerFrequency,
                                         p.bandPassFilter.bandwidth,
                                         p.sampleRate, p.bandPassFilter.order)
  /\ lowPassFilterI' = NewLowPassFilter(p.lowPassFilter.cutoffFrequency,
                                        p.sampleRate, p.lowPassFilter.order)
  /\ lowPassFilterQ' = NewLowPassFilter(p.lowPassFilter.cutoffFrequency,
                                        p.sampleRate, p.lowPassFilter.order)
  /\ mixer' = [mode |-> p.mixer.mode]
  /\ bpfPhaseOffset' =
       IF p.bandPassFilter.enabled
         THEN BandPassPhaseResponse(p.bandPassFilter.centerFrequency,
                                    p.bandPassFilter.bandwidth, p.sampleRate,
                                    p.bandPassFilter.order,
                                    p.signalSource.referenceFrequency)
         ELSE ZeroPhase
  /\ buffers' = BufferSet(p.bufferSize)
  /\ sampleCounter' = 0
  /\ iSum' = 0
  /\ qSum' = 0
  /\ avgCount' = 0

CleanupDSP ==
  /\ buffers' = NULL
  /\ referenceOsc' = NULL
  /\ modulatingOsc' = NULL
  /\ noiseGen' = NULL
  /\ interfererGen' = NULL
  /\ bandPassFilter' = NULL
  /\ lowPassFilterI' = NULL
  /\ lowPassFilterQ' = NULL
  /\ mixer' = NULL
  /\ sampleCounter' = 0
  /\ iSum' = 0
  /\ qSum' = 0
  /\ avgCount' = 0
  /\ bpfPhaseOffset' = ZeroPhase
  /\ params' = NULL
  /\ UNCHANGED phaseSeed

Has(obj, key) == key \in DOMAIN obj

\* needAccumulatorReset of updateParams: set by the presence of a field
NeedAccumulatorReset(newParams) ==
  \/ /\ Has(newParams, "signalSource")
     /\ \/ Has(newParams.signalSource, "referenceFrequency")
        \/ Has(newParams.signalSource, "modulatingFrequency")
  \/ Has(newParams, "bandPassFilter")
  \/ Has(newParams, "lowPassFilter")
  \/ Has(newParams, "mixer")

\* variant for C37: only a new reference frequency asks for the phase
NeedPhaseRecalcReferenceOnly(newParams) ==
  /\ Has(newParams, "signalSource")
  /\ Has(newParams.signalSource, "referenceFrequency")

\* needPhaseRecalc of updateParams
NeedPhaseRecalc(newParams) ==
  \/ /\ Has(newParams, "signalSource")
     /\ Has(newParams.signalSource, "referenceFrequency")
  \/ Has(newParams, "bandPassFilter")

\* the held params after the Object.assign calls of updateParams
MergedParams(held, newParams) ==
  [ signalSource   |-> IF Has(newParams, "signalSource")
                         THEN ObjectAssign(held.signalSource, newParams.signalSource)
                         ELSE held.signalSource,
    bandPassFilter |-> IF Has(newParams, "bandPassFilter")
                         THEN ObjectAssign(held.bandPassFilter, newParams.bandPassFilter)
                         ELSE held.bandPassFilter,
    lowPassFilter  |-> IF Has(newParams, "lowPassFilter")
                         THEN ObjectAssign(held.lowPassFilter, newParams.lowPassFilter)
                         ELSE held.lowPassFilter,
    mixer          |-> IF Has(newParams, "mixer")
                         THEN ObjectAssign(held.mixer, newParams.mixer)
                         ELSE held.mixer,
    sampleRate     |-> held.sampleRate,
    bufferSize     |-> held.bufferSize ]

\* the filters after the setters of updateParams, before any reset
UpdatedBandPassFilter(f, p) ==
  BpfSetOrder(
    BpfSetBandwidth(
      BpfSetCenterFrequency(f, p.bandPassFilter.centerFrequency),
      p.bandPassFilter.bandwidth),
    p.bandPassFilter.order)

UpdatedLowPassFilter(f, p) ==
  LpfSetOrder(LpfSetCutoffFrequency(f, p.lowPassFilter.cutoffFrequency),
              p.lowPassFilter.order)

\* variant for C6: the reset branch leaves the filter states
ResetFiltersSkipped(fs) == fs

\* the three filter.reset() calls of the reset branch
ResetFilters(fs) == [k \in DOMAIN fs |-> FilterReset(fs[k])]

\* variant for C5: the reset branch leaves the rings
ClearBuffersSkipped(b) == b

\* the thirteen clear() calls of the reset branch
ClearBuffers(b) == [ch \in DOMAIN b |-> Clear(b[ch])]

UpdateParams(newParams) ==
  IF \/ params = NULL \/ interfererGen = NULL \/ bandPassFilter = NULL
     \/ lowPassFilterI = NULL \/ lowPassFilterQ = NULL \/ mixer = NULL
  THEN UNCHANGED << params, dspVars >>
  ELSE
    LET p == MergedParams(params, newParams)
        setInterferers == /\ Has(newParams, "signalSource")
                          /\ Has(newParams.signalSource, "interferers")
        rebuilt == /\ setInterferers
                   /\ ~SameFrequencies(newParams.signalSource.interferers,
                                       interfererGen.interferers)
        fs == [ bpf  |-> IF Has(newParams, "bandPassFilter")
                           THEN UpdatedBandPassFilter(bandPassFilter, p)
                           ELSE bandPassFilter,
                lpfI |-> IF Has(newParams, "lowPassFilter")
                           THEN UpdatedLowPassFilter(lowPassFilterI, p)
                           ELSE lowPassFilterI,
                lpfQ |-> IF Has(newParams, "lowPassFilter")
                           THEN UpdatedLowPassFilter(lowPassFilterQ, p)
                           ELSE lowPassFilterQ ]
        reset == NeedAccumulatorReset(newParams)
        fs2 == IF reset THEN ResetFilters(fs) ELSE fs
    IN
      /\ params' = p
      /\ interfererGen' =
           IF setInterferers
             THEN SetInterferers(interfererGen, newParams.signalSource.interferers,
                                 phaseSeed + 1)
             ELSE interfererGen
      /\ phaseSeed' = IF rebuilt THEN phaseSeed + 1 ELSE phaseSeed
      /\ bandPassFilter' = fs2.bpf
      /\ lowPassFilterI' = fs2.lpfI
      /\ lowPassFilterQ' = fs2.lpfQ
      /\ mixer' = IF Has(newParams, "mixer") THEN [mode |-> p.mixer.mode] ELSE mixer
      /\ bpfPhaseOffset' =
           IF NeedPhaseRecalc(newParams)
             THEN IF p.bandPassFilter.enabled
                    THEN BandPassPhaseResponse(p.bandPassFilter.centerFrequency,
                                               p.bandPassFilter.bandwidth,
                                               p.sampleRate,
                                               p.bandPassFilter.order,
                                               p.signalSource.referenceFrequency)
                    ELSE ZeroPhase
             ELSE bpfPhaseOffset
      /\ iSum' = IF reset THEN 0 ELSE iSum
      /\ qSum' = IF reset THEN 0 ELSE qSum
      /\ avgCount' = IF reset THEN 0 ELSE avgCount
      /\ buffers' = IF reset /\ buffers # NULL THEN ClearBuffers(buffers) ELSE buffers
      /\ UNCHANGED << referenceOsc, modulatingOsc, noiseGen, sampleCounter >>

(***************************************************************************)
(* The worker: processSample                                               *)
(***************************************************************************)
\* the module state processSample reads and writes
Chain ==
  [ buffers        |-> buffers,
    bandPassFilter |-> bandPassFilter,
    lowPassFilterI |-> lowPassFilterI,
    lowPassFilterQ |-> lowPassFilterQ,
    iSum           |-> iSum,
    qSum           |-> qSum,
    avgCount       |-> avgCount,
    sampleCounter  |-> sampleCounter ]

\* variant for C39: the time ring is left out of the pushes
PushAllButTime(b, value) ==
  [ch \in DOMAIN b |-> IF ch = "time" THEN b[ch] ELSE Push(b[ch], value)]

\* the thirteen push calls that end processSample
PushAll(b, value) ==
  [ reference           |-> Push(b.reference, value),
    modulating          |-> Push(b.modulating, value),
    modulatingPlusNoise |-> Push(b.modulatingPlusNoise, value),
    sensorClean         |-> Push(b.sensorClean, value),
    noise               |-> Push(b.noise, value),
    sensor              |-> Push(b.sensor, value),
    afterBpf            |-> Push(b.afterBpf, value),
    mixerI              |-> Push(b.mixerI, value),
    mixerQ              |-> Push(b.mixerQ, value),
    iOutput             |-> Push(b.iOutput, value),
    qOutput             |-> Push(b.qOutput, value),
    signedOutput        |-> Push(b.signedOutput, value),
    time                |-> Push(b.time, value) ]

\* variant for C17: the sample counter is not advanced
ProcessSampleSameIndex(c, p) ==
  [c EXCEPT !.buffers = PushAll(c.buffers,
                                [n   |-> c.sampleCounter,
                                 cfg |-> << c.bandPassFilter.rev,
                                            c.lowPassFilterI.rev,
                                            c.lowPassFilterQ.rev >>]),
            !.avgCount = c.avgCount + 1]

\* One sample through the chain: the band-pass filter runs when enabled, both
\* low-pass filters always; the thirteen values are pushed, the sums and the
\* counter advance.
ProcessSample(c, p) ==
  LET value == [n   |-> c.sampleCounter,
                cfg |-> << c.bandPassFilter.rev, c.lowPassFilterI.rev,
                           c.lowPassFilterQ.rev >>]
  IN  [ buffers        |-> PushAll(c.buffers, value),
        bandPassFilter |-> IF p.bandPassFilter.enabled
                             THEN FilterProcess(c.bandPassFilter)
                             ELSE c.bandPassFilter,
        lowPassFilterI |-> FilterProcess(c.lowPassFilterI),
        lowPassFilterQ |-> FilterProcess(c.lowPassFilterQ),
        iSum           |-> c.iSum + 1,
        qSum           |-> c.qSum + 1,
        avgCount       |-> c.avgCount + 1,
        sampleCounter  |-> c.sampleCounter + 1 ]

\* for (let i = 0; i < maxSamples; i++) processSample()
\* The maxSamples calls are composed by halves, and the state after the
\* first half is a computed value before the second half starts: both keep
\* the evaluation shallow.
RECURSIVE ProcessSamples(_, _, _)
ProcessSamples(c, p, maxSamples) ==
  IF maxSamples <= 0 THEN c
  ELSE IF maxSamples = 1 THEN ProcessSample(c, p)
  ELSE LET half == maxSamples \div 2
       IN  CHOOSE last \in { ProcessSamples(first, p, maxSamples - half) :
                               first \in { ProcessSamples(c, p, half) } } : TRUE

\* samplesToProcess = Math.floor((deltaTime / 1000) * sampleRate)
SamplesToProcess(deltaTime, sampleRate) ==
  (deltaTime * sampleRate) \div UNITS_PER_SECOND

\* variant for C10: a tick without the cap
SamplesThisTickUncapped(deltaTime, sampleRate) ==
  LET samplesToProcess == SamplesToProcess(deltaTime, sampleRate)
  IN  IF samplesToProcess > 0 THEN samplesToProcess ELSE 0

\* the number of processSample calls of one tick
SamplesThisTick(deltaTime, sampleRate) ==
  LET samplesToProcess == SamplesToProcess(deltaTime, sampleRate)
  IN  IF samplesToProcess > 0
        THEN Min(samplesToProcess, MAX_SAMPLES_PER_TICK)
        ELSE 0

\* variant for C40: no tick moves lastSampleTime
LastSampleTimeKept(t, last, sampleRate) == last

\* variant for C30: every tick takes the clock it read
LastSampleTimeAlwaysNow(t, last, sampleRate) == t

\* lastSampleTime = now sits inside if (samplesToProcess > 0)
LastSampleTimeAfterTick(t, last, sampleRate) ==
  IF SamplesToProcess(t - last, sampleRate) > 0 THEN t ELSE last

(***************************************************************************)
(* The double buffer: sharedBufferLayout                                   *)
(***************************************************************************)
\* getActiveBuffer / getInactiveBuffer: the index of the block (0: A, 1: B)
GetActiveBuffer(f) == IF f = 0 THEN 0 ELSE 1

\* variant for C2: the writer is handed the block the flag points at
GetInactiveBufferActive(f) == IF f = 0 THEN 0 ELSE 1

GetInactiveBuffer(f) == IF f = 0 THEN 1 ELSE 0

\* variant for C3: a publish that leaves the flag
SwappedFlagKept(f) == f

\* the value swapBuffers stores into the flag
SwappedFlag(f) == IF f = 0 THEN 1 ELSE 0

EmptyBlock(points) ==
  [ch \in Channels |-> [i \in 0..(points - 1) |-> ZeroSample]]

(***************************************************************************)
(* The worker: timers, simulationLoop and the publish                      *)
(***************************************************************************)
\* variant for C27: simulationLoop ends without setting a timeout
SetTimeoutDropped ==
  /\ simulationTimeoutId' = simulationTimeoutId
  /\ orphanTimers' = orphanTimers

\* simulationTimeoutId = setTimeout(simulationLoop, 1): a timeout the
\* variable still referred to stays pending with nothing referring to it
SetTimeout ==
  /\ simulationTimeoutId' = "live"
  /\ orphanTimers' = IF simulationTimeoutId = "live"
                       THEN orphanTimers + 1 ELSE orphanTimers

\* a pending timeout fires and calls simulationLoop
TimerFire ==
  /\ pc = "idle"
  /\ \/ /\ simulationTimeoutId = "live"
        /\ simulationTimeoutId' = "stale"
        /\ UNCHANGED orphanTimers
     \/ /\ orphanTimers > 0
        /\ orphanTimers' = orphanTimers - 1
        /\ UNCHANGED simulationTimeoutId
  /\ pc' = "loop"
  /\ UNCHANGED << workerVars, dspVars, now, writeBuffer, dataLength, chan,
                  sharedVars, inbox, outbox, mainVars, handled >>
  /\ UNCHANGED unitVars

\* variant for C11: a publish on every tick
PublishDueAlways(t, last) == TRUE

\* if (now - lastUpdateTime >= UPDATE_INTERVAL_MS)
PublishDue(t, last) == t - last >= UPDATE_INTERVAL

\* simulationLoop up to the decision to publish; d is the time since the
\* clock was last read
SimulationLoop(d) ==
  /\ pc = "loop"
  /\ IF ~isRunning \/ params = NULL \/ sharedViews = NULL
       THEN /\ pc' = "idle"
            /\ UNCHANGED << workerVars, dspVars, now, writeBuffer, dataLength,
                            chan, simulationTimeoutId, orphanTimers, sharedVars >>
       ELSE
         LET t == now + d
             k == SamplesThisTick(t - lastSampleTime, params.sampleRate)
             c == IF buffers = NULL THEN Chain ELSE ProcessSamples(Chain, params, k)
             publish == PublishDue(t, lastUpdateTime)
         IN
           /\ now' = t
           /\ buffers' = c.buffers
           /\ bandPassFilter' = c.bandPassFilter
           /\ lowPassFilterI' = c.lowPassFilterI
           /\ lowPassFilterQ' = c.lowPassFilterQ
           /\ iSum' = c.iSum
           /\ qSum' = c.qSum
           /\ avgCount' = c.avgCount
           /\ sampleCounter' = c.sampleCounter
           /\ lastSampleTime' =
                LastSampleTimeAfterTick(t, lastSampleTime, params.sampleRate)
           /\ IF publish
                THEN /\ lastUpdateTime' = t
                     /\ writeBuffer' = GetInactiveBuffer(flag)
                     /\ snapSeq' = snapSeq + 1
                     /\ chan' = 1
                     /\ pc' = "write"
                     /\ UNCHANGED << simulationTimeoutId, orphanTimers >>
                ELSE /\ SetTimeout
                     /\ pc' = "idle"
                     /\ UNCHANGED << lastUpdateTime, writeBuffer, snapSeq, chan >>
           /\ UNCHANGED << isRunning, params, sharedViews, maxDisplayPoints,
                           referenceOsc, modulatingOsc, noiseGen, interfererGen,
                           mixer, bpfPhaseOffset, phaseSeed, dataLength,
                           flag, blocks, stamp, published >>
  /\ UNCHANGED << inbox, outbox, mainVars, handled >>
  /\ UNCHANGED unitVars

\* writeToSharedBuffer, one toDecimatedArrayInto call per step; the first
\* call's return value is dataLength
WriteChannel ==
  /\ pc = "write"
  /\ LET ch == SIGNAL_NAMES[chan]
         n  == DecimatedLength(buffers[ch], maxDisplayPoints)
     IN
       /\ blocks' = [blocks EXCEPT ![writeBuffer][ch] =
                       ToDecimatedArrayInto(buffers[ch], @, maxDisplayPoints)]
       /\ stamp' = [stamp EXCEPT ![writeBuffer][ch] =
                      [i \in DOMAIN @ |-> IF i < n THEN snapSeq ELSE @[i]]]
       /\ dataLength' = IF chan = 1 THEN n ELSE dataLength
  /\ IF chan < Len(SIGNAL_NAMES)
       THEN /\ chan' = chan + 1
            /\ pc' = "write"
       ELSE /\ chan' = chan
            /\ pc' = "swap"
  /\ UNCHANGED << workerVars, dspVars, now, writeBuffer, simulationTimeoutId,
                  orphanTimers, flag, snapSeq, published, inbox, outbox,
                  mainVars, handled >>
  /\ UNCHANGED unitVars

\* swapBuffers: the flag flips; published records the snapshot it now shows,
\* the clock reading of the tick that publishes it, and the sample index of
\* the newest time entry published since the last start (-1: none yet)
SwapBuffers ==
  /\ pc = "swap"
  /\ flag' = SwappedFlag(flag)
  /\ published' = [snap |-> snapSeq, dataLength |-> dataLength,
                   cfg |-> << bandPassFilter.rev, lowPassFilterI.rev,
                              lowPassFilterQ.rev >>,
                   at |-> now,
                   newest |-> IF dataLength > 0
                                THEN blocks[writeBuffer]["time"][dataLength - 1].n
                                ELSE published.newest]
  /\ pc' = "post"
  /\ UNCHANGED << workerVars, dspVars, now, writeBuffer, dataLength, chan,
                  simulationTimeoutId, orphanTimers, blocks, stamp, snapSeq,
                  inbox, outbox, mainVars, handled >>
  /\ UNCHANGED unitVars

\* getAveragedOutputs
AveragedOutputs ==
  IF params = NULL \/ avgCount = 0
    THEN [i |-> 0, q |-> 0]
    ELSE [i |-> iSum \div avgCount, q |-> qSum \div avgCount]

\* getAveragedOutputs, postMessage(frameReady), setTimeout(simulationLoop, 1)
PostFrameReady ==
  /\ pc = "post"
  /\ outbox' = Append(outbox, [type |-> "frameReady",
                               outputs |-> AveragedOutputs,
                               dataLength |-> dataLength,
                               snap |-> snapSeq])
  /\ IF params = NULL \/ avgCount = 0
       THEN UNCHANGED << iSum, qSum, avgCount >>
       ELSE /\ iSum' = 0
            /\ qSum' = 0
            /\ avgCount' = 0
  /\ SetTimeout
  /\ pc' = "idle"
  /\ UNCHANGED << workerVars, referenceOsc, modulatingOsc, noiseGen,
                  interfererGen, bandPassFilter, lowPassFilterI, lowPassFilterQ,
                  mixer, buffers, sampleCounter, bpfPhaseOffset, phaseSeed,
                  now, writeBuffer, dataLength, chan,
                  sharedVars, inbox, mainVars, handled >>
  /\ UNCHANGED unitVars

(***************************************************************************)
(* The worker: self.onmessage                                              *)
(***************************************************************************)
\* case 'init'
OnInit(m) ==
  /\ sharedViews' = [maxDisplayPoints |-> m.maxDisplayPoints]
  /\ maxDisplayPoints' = m.maxDisplayPoints
  /\ UNCHANGED << isRunning, params, lastSampleTime, lastUpdateTime, dspVars,
                  loopVars >>

\* case 'start'; both performance.now() calls read the clock d after its last
\* reading, and the call of simulationLoop is the task's next step
OnStart(m, d) ==
  /\ params' = m.params
  /\ InitializeDSP(m.params)
  /\ isRunning' = TRUE
  /\ now' = now + d
  /\ lastSampleTime' = now + d
  /\ lastUpdateTime' = now + d
  /\ pc' = "loop"
  /\ UNCHANGED << sharedViews, maxDisplayPoints, writeBuffer, dataLength, chan,
                  simulationTimeoutId, orphanTimers >>

\* variant for C12: a stop that clears the timeout and nothing else
OnStopTimerOnly ==
  /\ simulationTimeoutId' = "null"
  /\ UNCHANGED << workerVars, dspVars, pc, now, writeBuffer, dataLength, chan,
                  orphanTimers >>

\* case 'stop': clearTimeout removes the timeout only if it is still pending
OnStop ==
  /\ isRunning' = FALSE
  /\ simulationTimeoutId' = "null"
  /\ CleanupDSP
  /\ UNCHANGED << sharedViews, maxDisplayPoints, lastSampleTime, lastUpdateTime,
                  pc, now, writeBuffer, dataLength, chan, orphanTimers >>

\* case 'updateParams'
OnUpdateParams(m) ==
  /\ UpdateParams(m.params)
  /\ UNCHANGED << isRunning, sharedViews, maxDisplayPoints, lastSampleTime,
                  lastUpdateTime, loopVars >>

\* one message handled by the worker, which is between tasks; startedAt is
\* the clock reading the record of handled messages keeps for the last start
OnMessageNoting(m, d, startedAt) ==
  /\ pc = "idle"
  /\ CASE m.type = "init"         -> OnInit(m)
       [] m.type = "start"        -> OnStart(m, d)
       [] m.type = "stop"         -> OnStop
       [] m.type = "updateParams" -> OnUpdateParams(m)
  /\ handled' = [seq |-> handled.seq + 1, msg |-> m,
                 armed |-> CASE m.type = "start" -> sharedViews # NULL
                             [] m.type = "stop"  -> FALSE
                             [] OTHER            -> handled.armed,
                 startedAt |-> startedAt]
  /\ published' = IF m.type = "start" THEN [published EXCEPT !.newest = -1]
                                       ELSE published
  /\ UNCHANGED << flag, blocks, stamp, snapSeq >>
  /\ UNCHANGED unitVars

\* a message handled where the time of the last start is not asked for
OnMessage(m, d) == OnMessageNoting(m, d, 0)

(***************************************************************************)
(* The main thread: worker.onmessage of useSimulation                      *)
(***************************************************************************)
\* frameReady: the views of the block the flag points at now, cut to the
\* message's dataLength, go to the store; snap notes the message handled
HandleFrameReady ==
  /\ outbox # <<>>
  /\ LET message == Head(outbox)
     IN  IF message.type = "frameReady" /\ mounted
           THEN /\ storeBuffers' = [block      |-> GetActiveBuffer(flag),
                                    dataLength |-> message.dataLength,
                                    snap       |-> message.snap]
                /\ storeOutputs' = message.outputs
           ELSE UNCHANGED << storeBuffers, storeOutputs >>
  /\ outbox' = Tail(outbox)
  /\ UNCHANGED << workerVars, dspVars, loopVars, sharedVars, inbox,
                  mounted, store, storeIsRunning, userActions, handled >>
  /\ UNCHANGED unitVars

(***************************************************************************)
(* Spec: the worker under any message sequence, with the frame consumer    *)
(***************************************************************************)
ClockSteps == {0, 50, 100}

EnvMessages ==
  { InitMessage, StartMessage(DefaultParams), StopMessage }
    \cup { UpdateParamsMessage(q) : q \in PartialParams }

\* the environment posts a message and the worker handles it
Deliver(messages, maxMessages, steps, horizon) ==
  /\ handled.seq < maxMessages
  /\ \E m \in messages :
       \E d \in (IF m.type = "start" THEN steps ELSE {0}) :
         /\ now + d >= 0
         /\ now + d <= horizon
         /\ OnMessage(m, d)
  /\ UNCHANGED << inbox, outbox, mainVars >>

\* a run of simulationLoop that reads the clock d after its last reading
Tick(steps, horizon) ==
  \E d \in steps :
    /\ now + d >= 0
    /\ now + d <= horizon
    /\ SimulationLoop(d)

InitWorker ==
  /\ isRunning = FALSE
  /\ params = NULL
  /\ simulationTimeoutId = "null"
  /\ sharedViews = NULL
  /\ maxDisplayPoints = 2500
  /\ referenceOsc = NULL
  /\ modulatingOsc = NULL
  /\ noiseGen = NULL
  /\ interfererGen = NULL
  /\ bandPassFilter = NULL
  /\ lowPassFilterI = NULL
  /\ lowPassFilterQ = NULL
  /\ mixer = NULL
  /\ buffers = NULL
  /\ sampleCounter = 0
  /\ lastSampleTime = 0
  /\ lastUpdateTime = 0
  /\ iSum = 0
  /\ qSum = 0
  /\ avgCount = 0
  /\ bpfPhaseOffset = ZeroPhase
  /\ pc = "idle"
  /\ now = 0
  /\ writeBuffer = 0
  /\ dataLength = 0
  /\ chan = 1
  /\ orphanTimers = 0
  /\ phaseSeed = 0

\* new SharedArrayBuffer(...): the flag and both blocks are zero
InitShared ==
  /\ flag = 0
  /\ blocks = [b \in {0, 1} |-> EmptyBlock(SnapshotPoints)]
  /\ stamp = [b \in {0, 1} |->
                [ch \in Channels |-> [i \in 0..(SnapshotPoints - 1) |-> 0]]]
  /\ snapSeq = 0
  /\ published = [snap |-> 0, dataLength |-> 0, cfg |-> <<>>, at |-> 0,
                  newest |-> -1]

InitMain(isMounted) ==
  /\ mounted = isMounted
  /\ store = DefaultParams
  /\ storeIsRunning = TRUE
  /\ storeBuffers = NULL
  /\ storeOutputs = [i |-> 0, q |-> 0]
  /\ userActions = 0

\* no read has been made yet
NoResult == [op |-> "none", arg |-> 0, result |-> << >>, returned |-> 0]

InitUi ==
  /\ scope = NULL
  /\ frame = NULL
  /\ analyser = NULL
  /\ settings = NULL
  /\ dut = NULL

InitUnit ==
  /\ ring = NewCircularBuffer(1)
  /\ pushed = << >>
  /\ out = NoResult
  /\ osc = NewOscillator(1)
  /\ bank = [interferers |-> << >>, phases |-> << >>, sampleRate |-> 1, calls |-> 0]
  /\ InitUi

Init ==
  /\ InitWorker
  /\ InitShared
  /\ InitMain(TRUE)
  /\ inbox = <<>>
  /\ outbox = <<>>
  /\ handled = [seq |-> 0, msg |-> NULL, armed |-> FALSE, startedAt |-> 0]
  /\ InitUnit

Next ==
  \/ Deliver(EnvMessages, MaxMsgs, ClockSteps, MaxNow)
  \/ TimerFire
  \/ Tick(ClockSteps, MaxNow)
  \/ WriteChannel
  \/ SwapBuffers
  \/ PostFrameReady
  \/ HandleFrameReady

Spec == Init /\ [][Next]_vars

(***************************************************************************)
(* SpecPacing: the worker alone at 3000 samples/s, under long, zero and    *)
(* backward clock steps; the frames it posts are left in flight            *)
(***************************************************************************)
PacingSteps == {-1250, 0, 1250, 2500}

PacingMessages == { InitMessage, StartMessage(PacingParams) }

NextPacing ==
  \/ Deliver(PacingMessages, MaxMsgsPacing, PacingSteps, MaxNowPacing)
  \/ TimerFire
  \/ Tick(PacingSteps, MaxNowPacing)
  \/ WriteChannel
  \/ SwapBuffers
  \/ PostFrameReady

SpecPacing == Init /\ [][NextPacing]_vars

(***************************************************************************)
(* SpecApp: the worker driven by useSimulation                             *)
(***************************************************************************)
\* the effect "Handle start/stop": runs when isRunning or buildParams changed
StartStopEffect(running, p) ==
  IF running THEN << StartMessage(p) >> ELSE << StopMessage >>

\* the effect "Send parameter updates to worker": the full params, if running
UpdateEffect(running, p) ==
  IF running THEN << UpdateParamsMessage(p) >> ELSE << >>

\* the first render: the mount effect posts init and, if running, start; the
\* two other effects then run in the order they are declared
Mount ==
  /\ ~mounted
  /\ mounted' = TRUE
  /\ inbox' = inbox \o << InitMessage >>
                    \o (IF storeIsRunning THEN << StartMessage(store) >> ELSE << >>)
                    \o StartStopEffect(storeIsRunning, store)
                    \o UpdateEffect(storeIsRunning, store)
  /\ UNCHANGED << workerVars, dspVars, loopVars, sharedVars, outbox, store,
                  storeIsRunning, storeBuffers, storeOutputs, userActions,
                  handled >>
  /\ UNCHANGED unitVars

\* the values of the stores after one edit by the user
StoreEdits(s) ==
  { [s EXCEPT !.signalSource.referenceFrequency = 20],
    [s EXCEPT !.lowPassFilter.cutoffFrequency = 2],
    AmplitudeEdited(s) } \ {s}

\* a store setter changes a parameter: buildParams changes, so both effects
\* run after the render
UserEdit ==
  /\ mounted
  /\ userActions < MaxUserActions
  /\ \E s \in StoreEdits(store) :
       /\ store' = s
       /\ inbox' = inbox \o StartStopEffect(storeIsRunning, s)
                         \o UpdateEffect(storeIsRunning, s)
  /\ userActions' = userActions + 1
  /\ UNCHANGED << workerVars, dspVars, loopVars, sharedVars, outbox, mounted,
                  storeIsRunning, storeBuffers, storeOutputs, handled >>
  /\ UNCHANGED unitVars

\* toggle: setIsRunning(!isRunning); both effects depend on isRunning
Toggle ==
  /\ mounted
  /\ userActions < MaxUserActions
  /\ storeIsRunning' = ~storeIsRunning
  /\ inbox' = inbox \o StartStopEffect(~storeIsRunning, store)
                    \o UpdateEffect(~storeIsRunning, store)
  /\ userActions' = userActions + 1
  /\ UNCHANGED << workerVars, dspVars, loopVars, sharedVars, outbox, mounted,
                  store, storeBuffers, storeOutputs, handled >>
  /\ UNCHANGED unitVars

\* the worker takes the next message of its queue
Receive(steps, horizon) ==
  /\ inbox # << >>
  /\ \E d \in (IF Head(inbox).type = "start" THEN steps ELSE {0}) :
       /\ now + d >= 0
       /\ now + d <= horizon
       /\ OnMessage(Head(inbox), d)
  /\ inbox' = Tail(inbox)
  /\ UNCHANGED << outbox, mainVars >>

InitApp ==
  /\ InitWorker
  /\ InitShared
  /\ InitMain(FALSE)
  /\ inbox = << >>
  /\ outbox = << >>
  /\ handled = [seq |-> 0, msg |-> NULL, armed |-> FALSE, startedAt |-> 0]
  /\ InitUnit

NextApp ==
  \/ Mount
  \/ UserEdit
  \/ Toggle
  \/ Receive(ClockSteps, MaxNowApp)
  \/ TimerFire
  \/ Tick(ClockSteps, MaxNowApp)
  \/ WriteChannel
  \/ SwapBuffers
  \/ PostFrameReady
  \/ HandleFrameReady

SpecApp == InitApp /\ [][NextApp]_vars

(***************************************************************************)
(* Properties of the double buffer                                         *)
(***************************************************************************)
\* the entries of block b the snapshot numbered by stamp wrote, below length
EntriesStamped(b, length, snap) ==
  \A ch \in Channels :
    \A i \in 0..(length - 1) : stamp[b][ch][i] = snap

\* C1: the producer never writes a snapshot into the block whose views the
\* consumer took in its most recently handled frameReady and still holds: no
\* step writes an entry the held views cover.
C1_HeldBlockNeverWritten ==
  [][ storeBuffers # NULL =>
        \A ch \in Channels :
          \A i \in 0..(storeBuffers.dataLength - 1) :
            stamp'[storeBuffers.block][ch][i] = stamp[storeBuffers.block][ch][i]
    ]_vars

\* C2: the flag is 0 or 1 and changes only in the swapBuffers step of a
\* publish; every write of a snapshot targets the block the flag does not
\* point at, so no step changes the block the flag points at.
C2_WritesGoToInactiveBlock ==
  [][ /\ flag \in {0, 1}
      /\ flag' \in {0, 1}
      /\ (flag' # flag => pc = "swap" /\ pc' = "post")
      /\ (pc = "write" => writeBuffer # GetActiveBuffer(flag))
      /\ blocks'[GetActiveBuffer(flag)] = blocks[GetActiveBuffer(flag)]
      /\ stamp'[GetActiveBuffer(flag)] = stamp[GetActiveBuffer(flag)]
    ]_vars

\* the second snapshot stands complete in block A while the flag still points
\* at block B, which holds the first
C2_Witness ==
  /\ pc = "swap"
  /\ snapSeq = 2
  /\ flag = 1
  /\ dataLength > 0
  /\ EntriesStamped(0, dataLength, 2)

\* C3: the flag flips only after all 13 channels of the snapshot are in the
\* inactive block, and frameReady is posted only after the flip: in every
\* state the block the flag points at holds, in all channels, the snapshot
\* last published, and no frameReady in flight announces a later snapshot.
C3_ActiveBlockHoldsPublishedSnapshot ==
  /\ EntriesStamped(GetActiveBuffer(flag), published.dataLength, published.snap)
  /\ \A j \in 1..Len(outbox) : outbox[j].snap <= published.snap
  /\ (pc = "post" => published.snap = snapSeq)
  /\ (pc \in {"write", "swap"} => published.snap = snapSeq - 1)

\* between the second publish and the third, with its frameReady in flight
C3_Witness ==
  /\ pc = "idle"
  /\ published.snap = 2
  /\ published.dataLength > 0
  /\ outbox # <<>>
  /\ outbox[Len(outbox)].snap = 2

\* C4: when the consumer handles a frameReady, the dataLength of the message
\* is the number of valid entries of the block it then reads, and the first
\* dataLength entries of every channel of that block are of one snapshot.
C4_HandledLengthFitsBlockRead ==
  [][ (storeBuffers' # storeBuffers) =>
        /\ storeBuffers'.dataLength = published.dataLength
        /\ EntriesStamped(storeBuffers'.block, storeBuffers'.dataLength,
                          published.snap)
    ]_vars

(***************************************************************************)
(* Properties of updateParams                                              *)
(***************************************************************************)
EngineStarted == params # NULL /\ buffers # NULL /\ bandPassFilter # NULL

\* iSum = qSum = 0, avgCount = 0, every biquad state zero, every ring empty
EngineCleared ==
  /\ iSum = 0
  /\ qSum = 0
  /\ avgCount = 0
  /\ FilterStateIsZero(bandPassFilter)
  /\ FilterStateIsZero(lowPassFilterI)
  /\ FilterStateIsZero(lowPassFilterQ)
  /\ \A ch \in Channels : buffers[ch].length = 0

\* the step is the worker handling an updateParams message on a built engine
UpdateParamsHandled ==
  /\ handled' # handled
  /\ handled'.msg.type = "updateParams"
  /\ EngineStarted

\* the held value of one of the fields that call for a reset differs after
\* the step
ResetFieldChanged ==
  \/ params'.signalSource.referenceFrequency # params.signalSource.referenceFrequency
  \/ params'.signalSource.modulatingFrequency # params.signalSource.modulatingFrequency
  \/ params'.bandPassFilter # params.bandPassFilter
  \/ params'.lowPassFilter # params.lowPassFilter
  \/ params'.mixer # params.mixer

InterfererListChanged ==
  ~SameFrequencies(params'.signalSource.interferers, params.signalSource.interferers)

\* the held params differ after the step in interferer amplitudes only
OnlyAmplitudesChanged ==
  /\ params' # params
  /\ SameFrequencies(params'.signalSource.interferers, params.signalSource.interferers)
  /\ [params' EXCEPT !.signalSource.interferers = params.signalSource.interferers]
       = params

\* C5: a published snapshot never mixes samples of different filter
\* coefficients: every entry within dataLength of the snapshot the flag points
\* at went through the coefficient revisions in force when it was published,
\* and an update of a filter corner leaves no earlier sample in the rings.
C5_SnapshotOfOneCoefficientSet ==
  /\ \A ch \in Channels :
       \A i \in 0..(published.dataLength - 1) :
         blocks[GetActiveBuffer(flag)][ch][i].cfg = published.cfg
  /\ EngineStarted =>
       \A ch \in Channels :
         \A i \in 0..(buffers[ch].capacity - 1) :
           \/ buffers[ch].buffer[i] = ZeroSample
           \/ buffers[ch].buffer[i].cfg =
                << bandPassFilter.rev, lowPassFilterI.rev, lowPassFilterQ.rev >>

\* a snapshot published after a corner update that came after the first
\* samples: it starts at a later sample although the rings never overflowed
C5_Witness ==
  /\ published.dataLength > 0
  /\ published.cfg # << 0, 0, 0 >>
  /\ sampleCounter <= RingCapacity
  /\ blocks[GetActiveBuffer(flag)]["afterBpf"][0].n > 0
  /\ blocks[GetActiveBuffer(flag)]["afterBpf"][0].cfg = published.cfg

\* C6: an updateParams that changes referenceFrequency, modulatingFrequency,
\* a band-pass or low-pass parameter or the mixer mode leaves iSum = qSum = 0,
\* avgCount = 0, every biquad state zero and all 13 rings empty.
C6_ChangedResetFieldClearsEngine ==
  [][ (UpdateParamsHandled /\ ResetFieldChanged) => EngineCleared' ]_vars

\* the engine stands cleared by an update that came after samples were taken
C6_Witness ==
  /\ handled.seq > 0
  /\ handled.msg.type = "updateParams"
  /\ EngineStarted
  /\ params.lowPassFilter.cutoffFrequency = 2
  /\ sampleCounter > 0
  /\ EngineCleared

\* C7: an updateParams that changes the interferer list in length or in a
\* frequency, and nothing else, resets the accumulator and the filter states
\* and clears all 13 rings.
C7_InterfererChangeClearsEngine ==
  [][ (UpdateParamsHandled /\ InterfererListChanged /\ ~ResetFieldChanged)
        => EngineCleared' ]_vars

\* C8: an updateParams whose values differ from the held params in interferer
\* amplitudes only leaves the 13 rings, the accumulator, the filter states
\* and the interferer phases as they were.
C8_AmplitudeChangeKeepsEngine ==
  [][ (UpdateParamsHandled /\ OnlyAmplitudesChanged) =>
        /\ buffers' = buffers
        /\ << iSum', qSum', avgCount' >> = << iSum, qSum, avgCount >>
        /\ bandPassFilter' = bandPassFilter
        /\ lowPassFilterI' = lowPassFilterI
        /\ lowPassFilterQ' = lowPassFilterQ
        /\ interfererGen'.phases = interfererGen.phases
    ]_vars

(***************************************************************************)
(* Properties of the controller                                            *)
(***************************************************************************)
\* the messages a step of the main thread appends to the worker's queue
Posted == SubSeq(inbox', Len(inbox) + 1, Len(inbox'))

\* C9: when a parameter changes while the simulation runs, the controller
\* posts an updateParams message and no start message.
C9_ParamChangePostsNoStart ==
  [][ (mounted /\ storeIsRunning /\ store' # store) =>
        /\ \E j \in 1..Len(Posted) : Posted[j].type = "updateParams"
        /\ \A j \in 1..Len(Posted) : Posted[j].type # "start"
    ]_vars

(***************************************************************************)
(* Properties of the pacing                                                *)
(***************************************************************************)
\* the step is a run of simulationLoop on a running, initialised worker
TickTaken ==
  /\ pc = "loop"
  /\ pc' # "loop"
  /\ isRunning
  /\ params # NULL
  /\ sharedViews # NULL

\* due = floor((now - lastSampleTime) * fs), with now the clock as the tick
\* reads it
Due == ((now' - lastSampleTime) * params.sampleRate) \div UNITS_PER_SECOND

\* C10: a tick processes exactly min(due, 2000) samples, none when due <= 0,
\* and never more than 2000.
C10_TickProcessesMinDueCap ==
  [][ TickTaken =>
        /\ sampleCounter' - sampleCounter =
             (IF Due <= 0 THEN 0 ELSE Min(Due, 2000))
        /\ sampleCounter' - sampleCounter <= 2000
    ]_vars

\* the first tick came 2500 clock units after the start, with 2500 samples
\* due, and processed 2000
C10_Witness ==
  /\ pc = "write"
  /\ snapSeq = 1
  /\ now = 2500
  /\ lastSampleTime = 2500
  /\ sampleCounter = 2000

(***************************************************************************)
(* Properties of the publish cadence                                       *)
(***************************************************************************)
\* C11: a tick publishes exactly when the clock it reads is at least the
\* snapshot interval past lastUpdateTime; a frameReady is posted only by a
\* publish, and the tick that starts a publish reads a clock at least the
\* interval past the reading of the publish before it, also across a start.
C11_PublishEveryIntervalAtMost ==
  [][ /\ TickTaken =>
           /\ (pc' = "write") <=> (now' - lastUpdateTime >= UPDATE_INTERVAL)
           /\ (pc' = "write" /\ published.snap > 0) =>
                now' - published.at >= UPDATE_INTERVAL
      /\ Len(outbox') > Len(outbox) =>
           /\ pc = "post"
           /\ published.snap = snapSeq
           /\ published.at = now
    ]_vars

\* the second publish starts exactly one interval after the first
C11_Witness ==
  /\ pc = "write"
  /\ snapSeq = 2
  /\ published.snap = 1
  /\ now - published.at = UPDATE_INTERVAL

(***************************************************************************)
(* Properties of stop                                                      *)
(***************************************************************************)
\* every DSP component and the rings are null, the counters are zero
EngineReleased ==
  /\ buffers = NULL
  /\ referenceOsc = NULL
  /\ modulatingOsc = NULL
  /\ noiseGen = NULL
  /\ interfererGen = NULL
  /\ bandPassFilter = NULL
  /\ lowPassFilterI = NULL
  /\ lowPassFilterQ = NULL
  /\ mixer = NULL
  /\ sampleCounter = 0
  /\ iSum = 0
  /\ qSum = 0
  /\ avgCount = 0

\* the step is the worker handling a stop message
StopHandled ==
  /\ handled' # handled
  /\ handled'.msg.type = "stop"

\* C12: while the worker is stopped (from a stop to the next start) no step
\* processes a sample, flips the flag, writes a block or posts frameReady,
\* whatever timeouts are still pending; and the step that handles stop
\* leaves the counters at zero and the DSP components and rings null.
C12_StoppedWorkerDoesNothing ==
  [][ /\ (~isRunning /\ ~isRunning') =>
           /\ sampleCounter' = sampleCounter
           /\ flag' = flag
           /\ blocks' = blocks
           /\ Len(outbox') <= Len(outbox)
           /\ pc' \in {"idle", "loop"}
      /\ StopHandled =>
           /\ ~isRunning'
           /\ simulationTimeoutId' = "null"
           /\ EngineReleased'
    ]_vars

\* a timeout left over from a repeated start has fired after the stop, and
\* the engine it would have driven had processed samples and published
C12_Witness ==
  /\ handled.msg # NULL
  /\ handled.msg.type = "stop"
  /\ ~isRunning
  /\ pc = "loop"
  /\ snapSeq > 0
  /\ EngineReleased

(***************************************************************************)
(* Messages that arrive before init                                        *)
(***************************************************************************)
\* C13: as long as no init has been handled (sharedViews is null) a start,
\* stop or updateParams leaves the worker as constructed: not running, no
\* params, no DSP components, no timeout scheduled.
C13_MessagesBeforeInitIgnored ==
  sharedViews = NULL =>
    /\ ~isRunning
    /\ params = NULL
    /\ EngineReleased
    /\ simulationTimeoutId = "null"

(***************************************************************************)
(* SpecCorners: the worker under messages whose filter corners lie at or   *)
(* beyond the ends of (0, sampleRate / 2); DefaultParams run at 60         *)
(* samples/s, so the upper end is 30                                       *)
(***************************************************************************)
CornerMessages ==
  { InitMessage,
    StartMessage(DefaultParams),
    StartMessage([DefaultParams EXCEPT !.lowPassFilter.cutoffFrequency = 45]),
    UpdateParamsMessage([lowPassFilter |-> [cutoffFrequency |-> 30]]),
    UpdateParamsMessage([lowPassFilter |-> [cutoffFrequency |-> 0]]),
    UpdateParamsMessage([bandPassFilter |-> [centerFrequency |-> 45]]) }

NextCorners ==
  \/ Deliver(CornerMessages, MaxMsgs, ClockSteps, MaxNow)
  \/ TimerFire
  \/ Tick(ClockSteps, MaxNow)
  \/ WriteChannel
  \/ SwapBuffers
  \/ PostFrameReady
  \/ HandleFrameReady

SpecCorners == Init /\ [][NextCorners]_vars

\* corner is not inside the open interval (0, sampleRate / 2)
OutsideNyquist(corner, sampleRate) == corner <= 0 \/ 2 * corner >= sampleRate

\* the message's params name a filter corner outside (0, sampleRate / 2)
HasCornerOutsideRange(p, sampleRate) ==
  \/ /\ Has(p, "bandPassFilter")
     /\ Has(p.bandPassFilter, "centerFrequency")
     /\ OutsideNyquist(p.bandPassFilter.centerFrequency, sampleRate)
  \/ /\ Has(p, "lowPassFilter")
     /\ Has(p.lowPassFilter, "cutoffFrequency")
     /\ OutsideNyquist(p.lowPassFilter.cutoffFrequency, sampleRate)

\* the coefficients of the filter's sections; none when there is no filter
CoefficientsOf(f) ==
  IF f = NULL THEN << >> ELSE [i \in 1..Len(f.filter) |-> f.filter[i].coeffs]

\* the step is the worker handling a start or updateParams whose params name
\* a corner outside the range for the sample rate they apply to
CornerOutsideRangeHandled ==
  /\ handled' # handled
  /\ \/ /\ handled'.msg.type = "start"
        /\ HasCornerOutsideRange(handled'.msg.params, handled'.msg.params.sampleRate)
     \/ /\ handled'.msg.type = "updateParams"
        /\ EngineStarted
        /\ HasCornerOutsideRange(handled'.msg.params, params.sampleRate)

\* C14: a start or updateParams that names a filter corner outside
\* (0, sampleRate / 2) is refused: the held params and the coefficients of
\* the three filters are as they were before the message.
C14_CornerOutsideRangeRefused ==
  [][ CornerOutsideRangeHandled =>
        /\ params' = params
        /\ CoefficientsOf(bandPassFilter') = CoefficientsOf(bandPassFilter)
        /\ CoefficientsOf(lowPassFilterI') = CoefficientsOf(lowPassFilterI)
        /\ CoefficientsOf(lowPassFilterQ') = CoefficientsOf(lowPassFilterQ)
    ]_vars

(***************************************************************************)
(* SpecRing: one CircularBuffer under push, pushMany, clear, resize and    *)
(* its reads. The k-th value pushed since the buffer was last emptied is   *)
(* the sample tagged k, so any two retained values differ.                 *)
(***************************************************************************)
Sample(k) == [n |-> k, cfg |-> << >>]

RingPush ==
  /\ Len(pushed) < MaxPushes
  /\ LET value == Sample(Len(pushed))
     IN  /\ ring' = Push(ring, value)
         /\ pushed' = Append(pushed, value)
  /\ UNCHANGED << out, osc, bank, uiVars, systemVars >>

RingPushMany ==
  /\ \E count \in 0..MaxBatch :
       /\ Len(pushed) + count <= MaxPushes
       /\ LET values == [j \in 1..count |-> Sample(Len(pushed) + j - 1)]
          IN  /\ ring' = PushMany(ring, values)
              /\ pushed' = pushed \o values
  /\ UNCHANGED << out, osc, bank, uiVars, systemVars >>

RingClear ==
  /\ ring' = Clear(ring)
  /\ pushed' = << >>
  /\ UNCHANGED << out, osc, bank, uiVars, systemVars >>

RingResize ==
  /\ \E newCapacity \in 1..MaxCapacity : ring' = Resize(ring, newCapacity)
  /\ pushed' = << >>
  /\ UNCHANGED << out, osc, bank, uiVars, systemVars >>

RingToArray ==
  /\ out' = [op |-> "toArray", arg |-> 0, result |-> ToArray(ring),
             returned |-> 0]
  /\ UNCHANGED << ring, pushed, osc, bank, uiVars, systemVars >>

RingGetRecent ==
  /\ \E count \in 0..(MaxCapacity + 1) :
       out' = [op |-> "getRecent", arg |-> count,
               result |-> GetRecent(ring, count), returned |-> 0]
  /\ UNCHANGED << ring, pushed, osc, bank, uiVars, systemVars >>

RingToDecimatedArray ==
  /\ \E maxPoints \in 1..MaxPoints :
       out' = [op |-> "toDecimatedArray", arg |-> maxPoints,
               result |-> ToDecimatedArray(ring, maxPoints), returned |-> 0]
  /\ UNCHANGED << ring, pushed, osc, bank, uiVars, systemVars >>

\* the target is a zero-filled Float32Array of maxPoints entries
RingToDecimatedArrayInto ==
  /\ \E maxPoints \in 1..MaxPoints :
       LET target == [i \in 0..(maxPoints - 1) |-> ZeroSample]
       IN  out' = [op |-> "toDecimatedArrayInto", arg |-> maxPoints,
                   result |-> ToDecimatedArrayInto(ring, target, maxPoints),
                   returned |-> DecimatedLength(ring, maxPoints)]
  /\ UNCHANGED << ring, pushed, osc, bank, uiVars, systemVars >>

InitRing ==
  /\ InitWorker
  /\ InitShared
  /\ InitMain(TRUE)
  /\ inbox = << >>
  /\ outbox = << >>
  /\ handled = [seq |-> 0, msg |-> NULL, armed |-> FALSE, startedAt |-> 0]
  /\ ring \in { NewCircularBuffer(capacity) : capacity \in 1..MaxCapacity }
  /\ pushed = << >>
  /\ out = NoResult
  /\ osc = NewOscillator(1)
  /\ bank = [interferers |-> << >>, phases |-> << >>, sampleRate |-> 1, calls |-> 0]
  /\ InitUi

NextRing ==
  \/ RingPush
  \/ RingPushMany
  \/ RingClear
  \/ RingResize
  \/ RingToArray
  \/ RingGetRecent
  \/ RingToDecimatedArray
  \/ RingToDecimatedArrayInto

SpecRing == InitRing /\ [][NextRing]_vars

\* the bounded FIFO: the last min(N, C) of the N values pushed, oldest first
Retained ==
  SubSeq(pushed, Len(pushed) - Min(Len(pushed), ring.capacity) + 1, Len(pushed))

\* the step is the read named op
ReadTaken(op) ==
  /\ out'.op = op
  /\ ring' = ring
  /\ pushed' = pushed

\* C15: with N values pushed since the buffer was built, cleared or resized
\* and capacity C, length = min(N, C); toArray returns the last min(N, C)
\* pushed values, oldest first; getRecent(k) returns the last
\* min(k, length) of them in the same order.
C15_RingIsBoundedFifo ==
  [][ /\ ring'.length = Min(Len(pushed'), ring'.capacity)
      /\ ring'.length <= ring'.capacity
      /\ ReadTaken("toArray") =>
           /\ DOMAIN out'.result = 0..(Len(Retained) - 1)
           /\ \A i \in DOMAIN out'.result : out'.result[i] = Retained[i + 1]
      /\ ReadTaken("getRecent") =>
           LET n == Min(out'.arg, ring.length)
           IN  /\ DOMAIN out'.result = 0..(n - 1)
               /\ \A i \in DOMAIN out'.result :
                    out'.result[i] = Retained[Len(Retained) - n + i + 1]
    ]_vars

\* getRecent(2) on a buffer that has dropped a value returned the two
\* values pushed last
C15_Witness ==
  /\ out.op = "getRecent"
  /\ out.arg = 2
  /\ Len(pushed) > ring.capacity
  /\ ring.capacity >= 3
  /\ DOMAIN out.result = {0, 1}
  /\ out.result[0] = pushed[Len(pushed) - 1]
  /\ out.result[1] = pushed[Len(pushed)]

\* C16: toDecimatedArrayInto(target, maxPoints) returns ceil(length / s)
\* with s = ceil(capacity / maxPoints), which is at most maxPoints; entry i
\* of the target is the (i * s)-th oldest retained value, whether or not the
\* ring has wrapped, and the entries from the returned count on are left as
\* they were. toDecimatedArray returns the same entries in a new array.
C16_DecimatedViewInInsertionOrder ==
  [][ /\ ReadTaken("toDecimatedArrayInto") =>
           LET s == Ceil(ring.capacity, out'.arg)
           IN  /\ out'.returned = Ceil(ring.length, s)
               /\ out'.returned <= out'.arg
               /\ DOMAIN out'.result = 0..(out'.arg - 1)
               /\ \A i \in 0..(out'.returned - 1) :
                    out'.result[i] = Retained[i * s + 1]
               /\ \A i \in out'.returned..(out'.arg - 1) :
                    out'.result[i] = ZeroSample
      /\ ReadTaken("toDecimatedArray") =>
           LET s == Ceil(ring.capacity, out'.arg)
           IN  /\ DOMAIN out'.result = 0..(Ceil(ring.length, s) - 1)
               /\ \A i \in DOMAIN out'.result :
                    out'.result[i] = Retained[i * s + 1]
    ]_vars

\* a wrapped ring of capacity 4 read with maxPoints 2: stride 2, two entries,
\* the oldest retained value and the one two pushes after it
C16_Witness ==
  /\ out.op = "toDecimatedArrayInto"
  /\ out.arg = 2
  /\ ring.capacity = 4
  /\ Len(pushed) = 6
  /\ out.returned = 2
  /\ out.result[0] = Sample(2)
  /\ out.result[1] = Sample(4)

(***************************************************************************)
(* Properties of the sample index                                          *)
(***************************************************************************)
\* the values a ring retains, oldest first, carry increasing sample indices
RingInIndexOrder(r) ==
  LET a == ToArray(r)
  IN  \A i \in 0..(r.length - 2) : a[i].n < a[i + 1].n

Double(sign, tiny) == [sign |-> sign, tiny |-> tiny]

\* calculatePhase: (Math.atan2(q, i) * 180) / Math.PI, for i of magnitude 1
\* or zero; atan2(-small, -1) is -Math.PI and atan2(+small, -1) is Math.PI
CalculatePhase(i, q) ==
  IF q.sign = 0 THEN (IF i.sign < 0 THEN 180 ELSE 0)
  ELSE IF i.sign = 0 THEN q.sign * 90
  ELSE IF q.tiny THEN (IF i.sign < 0 THEN q.sign * 180 ELSE 0)
  ELSE IF i.sign > 0 THEN q.sign * 45
  ELSE q.sign * 135

\* while (phase > 180) phase -= 360
RECURSIVE WrapAbove(_)
WrapAbove(phase) == IF phase > 180 THEN WrapAbove(phase - 360) ELSE phase

\* while (phase < -180) phase += 360
RECURSIVE WrapBelow(_)
WrapBelow(phase) == IF phase < -180 THEN WrapBelow(phase + 360) ELSE phase

\* the phase field of getAveragedOutputs for avgCount > 0
AveragedPhase(iAvg, qAvg, bpfPhaseOffsetDegrees) ==
  WrapBelow(WrapAbove(CalculatePhase(iAvg, qAvg) - bpfPhaseOffsetDegrees))

\* the averaged pairs: both of magnitude 1 or zero, and i = -1 with a small q
AveragedPairs ==
  { << Double(si, FALSE), Double(sq, FALSE) >> : si \in {-1, 0, 1}, sq \in {-1, 0, 1} }
    \cup { << Double(-1, FALSE), Double(sq, TRUE) >> : sq \in {-1, 1} }

PhaseOffsets == { 45 * k : k \in (0 - MaxOffsetSteps)..MaxOffsetSteps }

PhaseReported ==
  /\ out = NoResult
  /\ \E pair \in AveragedPairs :
       \E offset \in PhaseOffsets :
         out' = [op |-> "phase", arg |-> << pair[1], pair[2], offset >>,
                 result |-> << >>,
                 returned |-> AveragedPhase(pair[1], pair[2], offset)]
  /\ UNCHANGED << ring, pushed, osc, bank, uiVars, systemVars >>

NextPhase == PhaseReported

SpecPhase == Init /\ [][NextPhase]_vars

\* C18: the phase reported for any averaged pair and any bpfPhaseOffset
\* satisfies -180 < phase <= 180.
C18_PhaseInHalfOpenRange ==
  out.op = "phase" => (-180 < out.returned /\ out.returned <= 180)

(***************************************************************************)
(* SpecOscillator: one Oscillator under sine, square, advancePhase and     *)
(* reset with any frequency per call, and one InterfererGenerator with one *)
(* or two interferers, installed with random phases, under generate        *)
(***************************************************************************)
Frequencies == 1..MaxFrequency

\* setInterferers on a new generator: phase: Math.random() * 2 * Math.PI
InstalledBanks ==
  { [interferers |-> fs, phases |-> ps, sampleRate |-> OscSampleRate, calls |-> 0] :
      fs \in { << f >> : f \in Frequencies } \cup { << 1, f >> : f \in Frequencies },
      ps \in { << a >> : a \in 0..(OscSampleRate - 1) }
               \cup { << a, b >> : a \in {0}, b \in 0..(OscSampleRate - 1) } }

InitOscillator ==
  /\ InitWorker
  /\ InitShared
  /\ InitMain(TRUE)
  /\ inbox = << >>
  /\ outbox = << >>
  /\ handled = [seq |-> 0, msg |-> NULL, armed |-> FALSE, startedAt |-> 0]
  /\ ring = NewCircularBuffer(1)
  /\ pushed = << >>
  /\ out = NoResult
  /\ osc = NewOscillator(OscSampleRate)
  /\ bank \in { b \in InstalledBanks : Len(b.interferers) = Len(b.phases) }
  /\ InitUi

OscillatorAdvance ==
  /\ osc.calls < MaxCalls
  /\ \E method \in {"sine", "square", "advancePhase"} :
       \E frequency \in Frequencies :
         osc' = OscillatorCall(osc, frequency)
  /\ UNCHANGED << ring, pushed, out, bank, uiVars, systemVars >>

OscillatorDoReset ==
  /\ osc' = OscillatorReset(osc)
  /\ UNCHANGED << ring, pushed, out, bank, uiVars, systemVars >>

BankGenerate ==
  /\ bank.calls < MaxCalls
  /\ bank' = Generate(bank)
  /\ UNCHANGED << ring, pushed, out, osc, uiVars, systemVars >>

NextOscillator ==
  \/ OscillatorAdvance
  \/ OscillatorDoReset
  \/ BankGenerate

SpecOscillator == InitOscillator /\ [][NextOscillator]_vars

\* C19: after any calls, with any frequency, the oscillator phase is in
\* [0, 2 pi), and so is every interferer phase.
C19_PhaseBelowTwoPi ==
  /\ 0 <= osc.phase
  /\ osc.phase < osc.sampleRate
  /\ \A i \in DOMAIN bank.phases :
       0 <= bank.phases[i] /\ bank.phases[i] < bank.sampleRate

(***************************************************************************)
(* SpecTrigger: findRisingEdgeTriggerWithTime on a channel buffer and a    *)
(* time buffer of the same length, as the store hands them out             *)
(***************************************************************************)
Length(a) == Cardinality(DOMAIN a)

\* variant for C20: the scan does not skip the samples before the window
RECURSIVE ScanFromStartOfBuffer(_, _, _, _, _)
ScanFromStartOfBuffer(data, timeData, threshold, endTime, i) ==
  IF i >= Length(data) THEN NULL
  ELSE IF timeData[i] > endTime THEN NULL
  ELSE IF data[i - 1] < threshold /\ data[i] >= threshold
         THEN [index |-> i, time |-> timeData[i]]
  ELSE ScanFromStartOfBuffer(data, timeData, threshold, endTime, i + 1)

FindIgnoringStartTime(data, timeData, threshold, startTime, endTime) ==
  IF Length(data) < 2 \/ Length(timeData) < 2 THEN NULL
  ELSE ScanFromStartOfBuffer(data, timeData, threshold, endTime, 1)

\* for (let i = 1; i < data.length; i++): continue before the window, break
\* after it, return at the first rising edge
RECURSIVE ScanForRisingEdge(_, _, _, _, _, _)
ScanForRisingEdge(data, timeData, threshold, startTime, endTime, i) ==
  IF i >= Length(data) THEN NULL
  ELSE LET time == timeData[i]
       IN  IF time < startTime
             THEN ScanForRisingEdge(data, timeData, threshold, startTime, endTime, i + 1)
           ELSE IF time > endTime THEN NULL
           ELSE IF data[i - 1] < threshold /\ data[i] >= threshold
                  THEN [index |-> i, time |-> time]
           ELSE ScanForRisingEdge(data, timeData, threshold, startTime, endTime, i + 1)

FindRisingEdgeTriggerWithTime(data, timeData, threshold, startTime, endTime) ==
  IF Length(data) < 2 \/ Length(timeData) < 2 THEN NULL
  ELSE ScanForRisingEdge(data, timeData, threshold, startTime, endTime, 1)

\* three levels: a threshold has values below it, at it and above it
Levels == {0, 1, 2}

Times == 0..MaxTime

ChannelBuffers(n) == [0..(n - 1) -> Levels]

\* the time buffers: nondecreasing
TimeBuffers(n) ==
  { t \in [0..(n - 1) -> Times] : \A i \in 1..(n - 1) : t[i - 1] <= t[i] }

TriggerSearched ==
  /\ out = NoResult
  /\ \E n \in 0..MaxSamples :
       \E data \in ChannelBuffers(n) :
         \E timeData \in TimeBuffers(n) :
           \E threshold \in Levels :
             \E startTime \in Times :
               \E endTime \in Times :
                 out' = [op |-> "trigger",
                         arg |-> [data |-> data, timeData |-> timeData,
                                  threshold |-> threshold,
                                  startTime |-> startTime, endTime |-> endTime],
                         result |-> << >>,
                         returned |-> FindRisingEdgeTriggerWithTime(
                                        data, timeData, threshold, startTime, endTime)]
  /\ UNCHANGED << ring, pushed, osc, bank, uiVars, systemVars >>

NextTrigger == TriggerSearched

SpecTrigger == Init /\ [][NextTrigger]_vars

\* the indices i >= 1 inside the window at which the channel rises through
\* the threshold
RisingEdges(a) ==
  { i \in 1..(Length(a.data) - 1) :
      /\ a.startTime <= a.timeData[i]
      /\ a.timeData[i] <= a.endTime
      /\ a.data[i - 1] < a.threshold
      /\ a.threshold <= a.data[i] }

FrameLength == 11
MaxFrameShift == 2
MaxTimeline == 12
MaxTimeScale == 12

Some(v) == [some |-> v]

ZeroBased(s) == [i \in 0..(Len(s) - 1) |-> s[i + 1]]

DisplayWindowSec(timeScale) == timeScale

\* variant for C33: the loop over the time stamps is left out
IndexOfTimeUnsearched(timeData, t) == 0

\* the loop that finds the index of a trigger time that is still on display
IndexOfTime(timeData, t) ==
  LET hits == { i \in DOMAIN timeData : timeData[i] >= t }
  IN  IF hits = {} THEN 0 ELSE CHOOSE i \in hits : \A j \in hits : i <= j

\* variant for C34: the search of a short frame runs to its last time stamp
SearchWholeFrame(data, timeData, threshold, earliestTime, bufferDuration) ==
  FindRisingEdgeTriggerWithTime(data, timeData, threshold, earliestTime,
                                earliestTime + bufferDuration)

\* bufferDuration * 0.1 is a tenth of a unit in general: the search over the
\* first tenth of the buffer compares the time stamps in tenths of a unit
SearchFirstTenth(data, timeData, threshold, earliestTime, bufferDuration) ==
  LET result == FindRisingEdgeTriggerWithTime(
                  data, [i \in DOMAIN timeData |-> 10 * timeData[i]], threshold,
                  10 * earliestTime, 10 * earliestTime + bufferDuration)
  IN  IF result = NULL THEN NULL
      ELSE [index |-> result.index, time |-> result.time \div 10]

Triggered(s, result) ==
  IF result = NULL THEN s
  ELSE [s EXCEPT !.triggerTime = Some(result.time),
                 !.triggerIndex = Some(result.index),
                 !.lastTriggerTime = Some(result.time)]

\* the search a frame starts once the holdoff allows it
SearchForTrigger(s, data, timeData) ==
  LET displayWindowSec == DisplayWindowSec(s.timeScale)
      latestTime == timeData[Length(timeData) - 1]
      earliestTime == timeData[0]
      bufferDuration == latestTime - earliestTime
      searchEndTime == latestTime - displayWindowSec
  IN  IF searchEndTime <= earliestTime
      THEN Triggered(s, SearchFirstTenth(data, timeData, s.triggerLevel,
                                         earliestTime, bufferDuration))
      ELSE Triggered(s, FindRisingEdgeTriggerWithTime(
                          data, timeData, s.triggerLevel, earliestTime,
                          searchEndTime))

\* variant for C32: the search starts whatever the last trigger time is
HoldoffSkipped(s, data, timeData) == SearchForTrigger(s, data, timeData)

\* the holdoff check, and the search it lets through
HoldoffThenSearch(s, data, timeData) ==
  LET displayWindowSec == DisplayWindowSec(s.timeScale)
      latestTime == timeData[Length(timeData) - 1]
  IN  IF s.lastTriggerTime = NULL THEN SearchForTrigger(s, data, timeData)
      ELSE IF latestTime < s.lastTriggerTime.some
      THEN SearchForTrigger([s EXCEPT !.lastTriggerTime = NULL], data, timeData)
      ELSE IF latestTime < s.lastTriggerTime.some + displayWindowSec THEN s
      ELSE SearchForTrigger(s, data, timeData)

\* the effect of TimeScaleControl, run on the frame f
TriggerEffect(s, f) ==
  IF ~s.oscilloscopeMode \/ f = NULL
  THEN [s EXCEPT !.triggerTime = NULL, !.triggerIndex = NULL]
  ELSE
    LET timeData == ZeroBased(f.time)
        data == ZeroBased(f.modulating)
        displayWindowSec == DisplayWindowSec(s.timeScale)
        latestTime == timeData[Length(timeData) - 1]
        earliestTime == timeData[0]
        currentTriggerTime == s.triggerTime
    IN  IF currentTriggerTime = NULL THEN HoldoffThenSearch(s, data, timeData)
        ELSE IF /\ currentTriggerTime.some >= earliestTime
                /\ currentTriggerTime.some + displayWindowSec <= latestTime
        THEN [s EXCEPT !.triggerIndex =
                         Some(IndexOfTime(timeData, currentTriggerTime.some))]
        ELSE HoldoffThenSearch(
               [s EXCEPT !.triggerTime = NULL, !.triggerIndex = NULL],
               data, timeData)

\* the frame after f: samples new samples are appended, one unit apart, and
\* the frame keeps its last FrameLength samples
Keep(s, n) == IF Len(s) <= n THEN s ELSE SubSeq(s, Len(s) - n + 1, Len(s))

NextFrame(f, samples) ==
  LET latest == f.time[Len(f.time)]
  IN  [time |-> Keep(f.time \o [i \in 1..Len(samples) |-> latest + i], FrameLength),
       modulating |-> Keep(f.modulating \o samples, FrameLength)]

\* the values of a sample of the modulating channel: below the trigger level
\* and at it
SampleLevels == {0, 1}

\* the time scales of the slider: one shorter than a full frame, one longer
TimeScales == {3, MaxTimeScale}

\* a frame arrives (the hook stores its buffers) and the effect runs on it
FrameArrives ==
  /\ frame # NULL
  /\ frame.time[Len(frame.time)] < MaxTimeline
  /\ \E k \in 1..MaxFrameShift : \E samples \in [1..k -> SampleLevels] :
       /\ frame' = NextFrame(frame, samples)
       /\ scope' = TriggerEffect(scope, frame')
  /\ UNCHANGED << ring, pushed, out, osc, bank, analyser, settings, dut, systemVars >>

InitScope ==
  /\ InitWorker
  /\ InitShared
  /\ InitMain(TRUE)
  /\ inbox = << >>
  /\ outbox = << >>
  /\ handled = [seq |-> 0, msg |-> NULL, armed |-> FALSE, startedAt |-> 0]
  /\ ring = NewCircularBuffer(1)
  /\ pushed = << >>
  /\ out = NoResult
  /\ osc = NewOscillator(1)
  /\ bank = [interferers |-> << >>, phases |-> << >>, sampleRate |-> 1, calls |-> 0]
  /\ analyser = NULL
  /\ settings = NULL
  /\ dut = NULL
  /\ \E level \in {0, 1} : frame = [time |-> << 0 >>, modulating |-> << level >>]
  /\ \E timeScale \in TimeScales :
       scope = TriggerEffect(
                 [oscilloscopeMode |-> TRUE, triggerLevel |-> 1,
                  timeScale |-> timeScale, triggerTime |-> NULL,
                  triggerIndex |-> NULL, lastTriggerTime |-> NULL], frame)

\* handleSliderChange: the user picks another time scale; the handler clears
\* the trigger on display and the last trigger time; timeScale is a
\* dependency of the effect, which runs again on the frame held
TimeScaleChanged ==
  /\ frame # NULL
  /\ \E timeScale \in TimeScales \ {scope.timeScale} :
       scope' = TriggerEffect([scope EXCEPT !.timeScale = timeScale,
                                           !.triggerTime = NULL,
                                           !.triggerIndex = NULL,
                                           !.lastTriggerTime = NULL], frame)
  /\ UNCHANGED << ring, pushed, out, osc, bank, frame, analyser, settings, dut,
                  systemVars >>

NextScope ==
  \/ FrameArrives
  \/ TimeScaleChanged

SpecScope == InitScope /\ [][NextScope]_vars

\* C21: with the settings unchanged and the timeline moving forward, a trigger
\* time accepted after another one lies at least one display window later
C21_HoldoffSeparatesTriggerTimes ==
  [][ ( /\ scope.lastTriggerTime # NULL
        /\ scope'.timeScale = scope.timeScale
        /\ scope'.lastTriggerTime # NULL
        /\ scope'.lastTriggerTime # scope.lastTriggerTime
        /\ scope'.lastTriggerTime.some > scope.lastTriggerTime.some )
      => scope'.lastTriggerTime.some
           >= scope.lastTriggerTime.some + DisplayWindowSec(scope.timeScale) ]_vars

(***************************************************************************)
(* The spectrum display (FrequencySpectrum).  The transform is computed    *)
(* exactly, on Gaussian integers: the work arrays have FftSize = 4 cells   *)
(* (1024 in the source), for which the twiddle factors are -1 (len 2) and  *)
(* -i (len 4) and four times the Hann window is 0, 3, 3, 0 (n = 4) and     *)
(* 0, 0 (n = 2).  A cell of the real work array holds four times the       *)
(* source's value.  A magnitude is held as the square of (|X| / n) times   *)
(* (4 * FftSize)^2, of which the source's dB value is an increasing        *)
(* function above its floor of 1e-10.                                      *)
(***************************************************************************)
\* SpecSpectrum: the cells of a work array, the least input length that is
\* transformed (64 in the source), the longest input, the sample rate, the
\* snapshots that reach the component
FftSize == 4
MinSpectrumSamples == 2
MaxSpectrumInput == 5
SpectrumSampleRate == 8
MaxSpectrumUpdates == 3

NumBins == FftSize \div 2

ZeroArray(n) == [i \in 0..(n - 1) |-> 0]

\* the module-level buffers after ensureFftBuffers
FftBuffers ==
  [fftReal |-> ZeroArray(FftSize), fftImag |-> ZeroArray(FftSize),
   fftFrequencies |-> ZeroArray(NumBins), fftMagnitudes |-> ZeroArray(NumBins)]

\* Math.pow(2, Math.floor(Math.log2(length)))
RECURSIVE PowerOfTwoBelow(_)
PowerOfTwoBelow(length) ==
  IF length < 2 THEN 1 ELSE 2 * PowerOfTwoBelow(length \div 2)

\* four times 0.5 * (1 - cos(2 * pi * i / (n - 1)))
HannTimesFour(n, i) ==
  IF n = 4 THEN (IF i = 1 \/ i = 2 THEN 3 ELSE 0) ELSE 0

\* (cos(2 * pi / len), -sin(2 * pi / len))
Twiddle(len) ==
  IF len = 2 THEN [re |-> -1, im |-> 0]
  ELSE IF len = 4 THEN [re |-> 0, im |-> -1]
  ELSE [re |-> 1, im |-> 0]

Swap(a, i, j) == [a EXCEPT ![i] = a[j], ![j] = a[i]]

\* the while loop of the bit reversal: the next j
RECURSIVE NextReversed(_, _)
NextReversed(j, k) == IF k <= j THEN NextReversed(j - k, k \div 2) ELSE j + k

RECURSIVE BitReversal(_, _, _, _)
BitReversal(w, i, j, n) ==
  IF i >= n - 1 THEN w
  ELSE BitReversal(
         IF i < j THEN [real |-> Swap(w.real, i, j), imag |-> Swap(w.imag, i, j)]
         ELSE w,
         i + 1, NextReversed(j, n \div 2), n)

\* the innermost loop: the butterflies k..halfLen-1 of the block at i
RECURSIVE Butterflies(_, _, _, _, _, _)
Butterflies(w, i, k, halfLen, cur, tw) ==
  IF k >= halfLen THEN w
  ELSE
    LET evenIdx == i + k
        oddIdx == evenIdx + halfLen
        tReal == cur.re * w.real[oddIdx] - cur.im * w.imag[oddIdx]
        tImag == cur.re * w.imag[oddIdx] + cur.im * w.real[oddIdx]
        after == [real |-> [w.real EXCEPT ![oddIdx] = w.real[evenIdx] - tReal,
                                          ![evenIdx] = w.real[evenIdx] + tReal],
                  imag |-> [w.imag EXCEPT ![oddIdx] = w.imag[evenIdx] - tImag,
                                          ![evenIdx] = w.imag[evenIdx] + tImag]]
        next == [re |-> cur.re * tw.re - cur.im * tw.im,
                 im |-> cur.re * tw.im + cur.im * tw.re]
    IN  Butterflies(after, i, k + 1, halfLen, next, tw)

RECURSIVE Blocks(_, _, _, _)
Blocks(w, i, len, n) ==
  IF i >= n THEN w
  ELSE Blocks(Butterflies(w, i, 0, len \div 2, [re |-> 1, im |-> 0], Twiddle(len)),
              i + len, len, n)

RECURSIVE Stages(_, _, _)
Stages(w, len, n) ==
  IF len > n THEN w ELSE Stages(Blocks(w, 0, len, n), 2 * len, n)

\* fft(real, imag): the transform of the whole arrays, n = real.length
Fft(w) ==
  LET n == Length(w.real)
  IN  IF n <= 1 THEN w ELSE Stages(BitReversal(w, 0, 0, n), 2, n)

Decibel(power, n) == power * (FftSize \div n) * (FftSize \div n)

\* computeSpectrumInPlace: the buffers after the call, and numBins
ComputeSpectrumInPlace(data, sampleRate, b) ==
  LET n == Min(FftSize, PowerOfTwoBelow(Len(data)))
      numBins == n \div 2
      startIdx == Max(0, Len(data) - n)
      windowed ==
        [real |-> [i \in DOMAIN b.fftReal |->
                     IF i < n THEN data[startIdx + i + 1] * HannTimesFour(n, i)
                     ELSE b.fftReal[i]],
         imag |-> [i \in DOMAIN b.fftImag |-> IF i < n THEN 0 ELSE b.fftImag[i]]]
      w == Fft(windowed)
      freqResolution == sampleRate \div n
  IN  [buffers |->
         [fftReal |-> w.real, fftImag |-> w.imag,
          fftFrequencies |-> [i \in DOMAIN b.fftFrequencies |->
                                IF i < numBins THEN i * freqResolution
                                ELSE b.fftFrequencies[i]],
          fftMagnitudes |-> [i \in DOMAIN b.fftMagnitudes |->
                               IF i < numBins
                               THEN Decibel(w.real[i] * w.real[i]
                                              + w.imag[i] * w.imag[i], n)
                               ELSE b.fftMagnitudes[i]]],
       numBins |-> numBins]

Subarray(a, n) == [i \in 1..n |-> a[i - 1]]

\* the chart's data on mount
EmptyData == [frequencies |-> << 0 >>, magnitudes |-> << 0 >>]

\* the effect that updates the spectrum when the data prop changes
SpectrumEffect(a, data) ==
  IF ~a.chart \/ Len(data) < MinSpectrumSamples THEN [a EXCEPT !.data = data]
  ELSE
    LET b == IF a.buffers = NULL THEN FftBuffers ELSE a.buffers
        computed == ComputeSpectrumInPlace(data, SpectrumSampleRate, b)
    IN  [a EXCEPT !.data = data,
                  !.buffers = computed.buffers,
                  !.shown =
                    [frequencies |-> Subarray(computed.buffers.fftFrequencies,
                                              computed.numBins),
                     magnitudes |-> Subarray(computed.buffers.fftMagnitudes,
                                             computed.numBins)]]

SpectrumInputs ==
  UNION { [1..length -> {0, 1}] : length \in 0..MaxSpectrumInput }

\* a new snapshot of the selected channel reaches the component
SpectrumUpdated ==
  /\ analyser # NULL
  /\ analyser.updates < MaxSpectrumUpdates
  /\ \E data \in SpectrumInputs :
       /\ data # analyser.data
       /\ analyser' = [SpectrumEffect(analyser, data) EXCEPT !.updates = @ + 1]
  /\ UNCHANGED << ring, pushed, out, osc, bank, scope, frame, settings, dut, systemVars >>

InitSpectrum ==
  /\ InitWorker
  /\ InitShared
  /\ InitMain(TRUE)
  /\ inbox = << >>
  /\ outbox = << >>
  /\ handled = [seq |-> 0, msg |-> NULL, armed |-> FALSE, startedAt |-> 0]
  /\ ring = NewCircularBuffer(1)
  /\ pushed = << >>
  /\ out = NoResult
  /\ osc = NewOscillator(1)
  /\ bank = [interferers |-> << >>, phases |-> << >>, sampleRate |-> 1, calls |-> 0]
  /\ scope = NULL
  /\ frame = NULL
  /\ settings = NULL
  /\ dut = NULL
  /\ analyser = [chart |-> TRUE, data |-> << >>, buffers |-> NULL,
                 shown |-> EmptyData, updates |-> 0]

NextSpectrum == SpectrumUpdated

SpecSpectrum == InitSpectrum /\ [][NextSpectrum]_vars

\* the N-point transform of the windowed last N samples of the input, by the
\* definition of the discrete Fourier transform (N = 2 or 4)
LastSamples(data, n) == [i \in 0..(n - 1) |-> data[Len(data) - n + i + 1]]

DftPower(x, k) ==
  LET n == Length(x)
      v(i) == x[i] * HannTimesFour(n, i)
  IN  IF n = 2 THEN (v(0) + (IF k = 0 THEN 1 ELSE -1) * v(1)) * (v(0) + (IF k = 0 THEN 1 ELSE -1) * v(1))
      ELSE IF k = 0 THEN (v(0) + v(1) + v(2) + v(3)) * (v(0) + v(1) + v(2) + v(3))
      ELSE (v(0) - v(2)) * (v(0) - v(2)) + (v(3) - v(1)) * (v(3) - v(1))

SpectrumOf(data) ==
  LET n == Min(FftSize, PowerOfTwoBelow(Len(data)))
      x == LastSamples(data, n)
  IN  [frequencies |-> [k \in 1..(n \div 2) |-> (k - 1) * (SpectrumSampleRate \div n)],
       magnitudes |-> [k \in 1..(n \div 2) |-> Decibel(DftPower(x, k - 1), n)]]

\* C22: for an input of at least the minimum length the spectrum on display
\* is the N/2-bin spectrum of the last N samples of that input, N the largest
\* power of two within the input and the work arrays, whatever earlier calls
\* left in the work arrays
C22_SpectrumOfCurrentInputOnly ==
  (analyser # NULL /\ Len(analyser.data) >= MinSpectrumSamples)
    => analyser.shown = SpectrumOf(analyser.data)

\* C23: while the input is shorter than the minimum length the display holds
\* no spectrum
C23_ShortInputShowsNothing ==
  (analyser # NULL /\ Len(analyser.data) < MinSpectrumSamples)
    => \/ analyser.shown = EmptyData
       \/ analyser.shown = [frequencies |-> << >>, magnitudes |-> << >>]

(***************************************************************************)
(* The configuration stores (useSignalSourceStore, useFilterStore and the  *)
(* timeScale of useSimulationStore).  A number is a double: NaN, plus or   *)
(* minus Infinity, or a finite value, which is held in tenths so that 0.1  *)
(* is the integer 1.  Negative zero is not told from zero.                 *)
(***************************************************************************)
\* SpecSettings: the setter calls of a behaviour
MaxSetterCalls == 2

NaN == [nan |-> TRUE, inf |-> 0, v |-> 0]
Infinity(sign) == [nan |-> FALSE, inf |-> sign, v |-> 0]
Fin(tenths) == [nan |-> FALSE, inf |-> 0, v |-> tenths]

\* a < b on doubles: false when either is NaN
Less(a, b) ==
  /\ ~a.nan
  /\ ~b.nan
  /\ \/ a.inf < b.inf
     \/ a.inf = 0 /\ b.inf = 0 /\ a.v < b.v

\* Math.max and Math.min: NaN if either argument is NaN
MathMax(a, b) == IF a.nan \/ b.nan THEN NaN ELSE IF Less(a, b) THEN b ELSE a
MathMin(a, b) == IF a.nan \/ b.nan THEN NaN ELSE IF Less(b, a) THEN b ELSE a

\* a % m for a finite m > 0: the sign of the dividend, NaN for a non-finite a
Remainder(a, m) ==
  IF a.nan \/ a.inf # 0 THEN NaN
  ELSE IF a.v >= 0 THEN Fin(a.v % m.v) ELSE Fin(0 - ((0 - a.v) % m.v))

\* a + m for a finite m
Plus(a, m) == IF a.nan \/ a.inf # 0 THEN a ELSE Fin(a.v + m.v)

FilterOrders == {1, 2, 4}

DefaultSignalSourceState ==
  [referenceFrequency |-> Fin(1000), referenceAmplitude |-> Fin(10),
   modulatingFrequency |-> Fin(100), modulationIndex |-> Fin(5),
   phaseShift |-> Fin(0), sensorOutputAmplitude |-> Fin(10),
   whiteNoiseAmplitude |-> Fin(1), interferers |-> << >>]

DefaultFilters ==
  [bandPassFilter |-> [enabled |-> TRUE, centerFrequency |-> Fin(1000),
                       bandwidth |-> Fin(500), order |-> 2],
   lowPassFilter |-> [cutoffFrequency |-> Fin(100), order |-> 2]]

DefaultTimeScale == Fin(500)

\* the setters of useSignalSourceStore
SetReferenceFrequency(s, freq) ==
  [s EXCEPT !.referenceFrequency = MathMax(Fin(10), MathMin(Fin(10000), freq))]
SetReferenceAmplitude(s, amp) ==
  [s EXCEPT !.referenceAmplitude = MathMax(Fin(0), amp)]
SetModulatingFrequency(s, freq) ==
  [s EXCEPT !.modulatingFrequency = MathMax(Fin(1), freq)]
SetModulationIndex(s, index) ==
  [s EXCEPT !.modulationIndex = MathMax(Fin(0), MathMin(Fin(10), index))]
SetPhaseShift(s, phase) ==
  [s EXCEPT !.phaseShift =
     Remainder(Plus(Remainder(phase, Fin(3600)), Fin(3600)), Fin(3600))]
SetSensorOutputAmplitude(s, amp) ==
  [s EXCEPT !.sensorOutputAmplitude = MathMax(Fin(0), amp)]
SetWhiteNoiseAmplitude(s, amp) ==
  [s EXCEPT !.whiteNoiseAmplitude = MathMax(Fin(0), amp)]

\* the setters of useFilterStore
SetBpfEnabled(s, enabled) == [s EXCEPT !.bandPassFilter.enabled = enabled]
SetBpfCenterFrequency(s, freq) ==
  [s EXCEPT !.bandPassFilter.centerFrequency = MathMax(Fin(10), freq)]
SetBpfBandwidth(s, bw) ==
  [s EXCEPT !.bandPassFilter.bandwidth = MathMax(Fin(10), bw)]
SetBpfOrder(s, order) == [s EXCEPT !.bandPassFilter.order = order]
SetLpfCutoffFrequency(s, freq) ==
  [s EXCEPT !.lowPassFilter.cutoffFrequency = MathMax(Fin(1), freq)]
SetLpfOrder(s, order) == [s EXCEPT !.lowPassFilter.order = order]

\* setTimeScale of useSimulationStore
SetTimeScale(s, scale) ==
  [s EXCEPT !.timeScale = MathMax(Fin(10), MathMin(Fin(2000), scale))]

\* the doubles a setter is called with: NaN, the infinities, and finite
\* values below, at and above every limit (in tenths)
Arguments ==
  { NaN, Infinity(1), Infinity(-1) }
    \cup { Fin(v) : v \in { -3605, -3600, -10, -1, 0, 1, 5, 10, 11, 2000, 2001,
                            3599, 3600, 7205, 10000, 10001 } }

InitSettingsValue ==
  [signalSource |-> DefaultSignalSourceState, filters |-> DefaultFilters,
   timeScale |-> DefaultTimeScale, interfererIdCounter |-> 0,
   calls |-> 0, last |-> NULL, assigned |-> {}]

Called(s, op, args) == [s EXCEPT !.calls = @ + 1, !.last = [op |-> op, args |-> args]]

SignalSourceSetterCalled ==
  /\ settings # NULL
  /\ settings.calls < MaxSetterCalls
  /\ \E x \in Arguments :
       \E after \in { SetReferenceFrequency(settings.signalSource, x),
                      SetReferenceAmplitude(settings.signalSource, x),
                      SetModulatingFrequency(settings.signalSource, x),
                      SetModulationIndex(settings.signalSource, x),
                      SetPhaseShift(settings.signalSource, x),
                      SetSensorOutputAmplitude(settings.signalSource, x),
                      SetWhiteNoiseAmplitude(settings.signalSource, x) } :
         settings' = Called([settings EXCEPT !.signalSource = after], "signalSource", x)
  /\ UNCHANGED << ring, pushed, out, osc, bank, scope, frame, analyser, dut, systemVars >>

FilterSetterCalled ==
  /\ settings # NULL
  /\ settings.calls < MaxSetterCalls
  /\ \E after \in
         { SetBpfCenterFrequency(settings.filters, x) : x \in Arguments }
           \cup { SetBpfBandwidth(settings.filters, x) : x \in Arguments }
           \cup { SetLpfCutoffFrequency(settings.filters, x) : x \in Arguments }
           \cup { SetBpfEnabled(settings.filters, e) : e \in BOOLEAN }
           \cup { SetBpfOrder(settings.filters, o) : o \in FilterOrders }
           \cup { SetLpfOrder(settings.filters, o) : o \in FilterOrders } :
       settings' = Called([settings EXCEPT !.filters = after], "filters", 0)
  /\ UNCHANGED << ring, pushed, out, osc, bank, scope, frame, analyser, dut, systemVars >>

TimeScaleSet ==
  /\ settings # NULL
  /\ settings.calls < MaxSetterCalls
  /\ \E x \in Arguments :
       settings' = Called(SetTimeScale(settings, x), "setTimeScale", x)
  /\ UNCHANGED << ring, pushed, out, osc, bank, scope, frame, analyser, dut, systemVars >>

InitSettings ==
  /\ InitWorker
  /\ InitShared
  /\ InitMain(TRUE)
  /\ inbox = << >>
  /\ outbox = << >>
  /\ handled = [seq |-> 0, msg |-> NULL, armed |-> FALSE, startedAt |-> 0]
  /\ ring = NewCircularBuffer(1)
  /\ pushed = << >>
  /\ out = NoResult
  /\ osc = NewOscillator(1)
  /\ bank = [interferers |-> << >>, phases |-> << >>, sampleRate |-> 1, calls |-> 0]
  /\ scope = NULL
  /\ frame = NULL
  /\ analyser = NULL
  /\ dut = NULL
  /\ settings = InitSettingsValue

NextSettings == SignalSourceSetterCalled \/ FilterSetterCalled \/ TimeScaleSet

SpecSettings == InitSettings /\ [][NextSettings]_vars

Within(x, low, high) == ~x.nan /\ ~Less(x, low) /\ ~Less(high, x)
AtLeast(x, low) == ~x.nan /\ ~Less(x, low)

\* C24: whatever the setters were called with, every held setting is inside
\* its range
C24_SettingsInRange ==
  settings # NULL =>
    /\ Within(settings.signalSource.referenceFrequency, Fin(10), Fin(10000))
    /\ AtLeast(settings.signalSource.modulatingFrequency, Fin(1))
    /\ Within(settings.signalSource.modulationIndex, Fin(0), Fin(10))
    /\ AtLeast(settings.signalSource.phaseShift, Fin(0))
    /\ Less(settings.signalSource.phaseShift, Fin(3600))
    /\ AtLeast(settings.signalSource.referenceAmplitude, Fin(0))
    /\ AtLeast(settings.signalSource.sensorOutputAmplitude, Fin(0))
    /\ AtLeast(settings.signalSource.whiteNoiseAmplitude, Fin(0))
    /\ AtLeast(settings.filters.bandPassFilter.centerFrequency, Fin(10))
    /\ AtLeast(settings.filters.bandPassFilter.bandwidth, Fin(10))
    /\ AtLeast(settings.filters.lowPassFilter.cutoffFrequency, Fin(1))
    /\ Within(settings.timeScale, Fin(10), Fin(2000))

(***************************************************************************)
(* The interferer list of useSignalSourceStore.  An id "int-n" is held as  *)
(* the number n.                                                           *)
(***************************************************************************)
\* SpecInterferers: the calls of a behaviour
MaxInterfererCalls == 4

\* mutant of AddInterferer: the id is taken from the length of the list
AddInterfererNumberedByLength(s, interferer) ==
  [s EXCEPT !.signalSource.interferers =
              Append(@, ObjectAssign(interferer, [id |-> Len(@) + 1])),
            !.interfererIdCounter = @ + 1,
            !.assigned = @ \cup { Len(s.signalSource.interferers) + 1 }]

\* addInterferer; assigned records every id that was ever handed out
AddInterferer(s, interferer) ==
  [s EXCEPT !.signalSource.interferers =
              Append(@, ObjectAssign(interferer, [id |-> s.interfererIdCounter + 1])),
            !.interfererIdCounter = @ + 1,
            !.assigned = @ \cup { s.interfererIdCounter + 1 }]

RemoveInterferer(s, id) ==
  [s EXCEPT !.signalSource.interferers = SelectSeq(@, LAMBDA i : i.id # id)]

UpdateInterferer(s, id, updates) ==
  [s EXCEPT !.signalSource.interferers =
              [k \in DOMAIN @ |-> IF @[k].id = id THEN ObjectAssign(@[k], updates)
                                  ELSE @[k]]]

\* reset of useSignalSourceStore: the default state; the counter is not part
\* of it
ResetSignalSource(s) == [s EXCEPT !.signalSource = DefaultSignalSourceState]

\* the doubles an interferer is given: below, inside and at the limits
InterfererArguments == { Fin(-10), Fin(0), Fin(500) }

InterfererUpdates ==
  { [frequency |-> f] : f \in InterfererArguments }
    \cup { [amplitude |-> a] : a \in InterfererArguments }
    \cup { [frequency |-> f, amplitude |-> a] :
             f \in InterfererArguments, a \in InterfererArguments }
    \cup { << >> }

InterfererAdded ==
  /\ settings # NULL
  /\ settings.calls < MaxInterfererCalls
  /\ \E f \in InterfererArguments, a \in InterfererArguments :
       settings' = Called(AddInterferer(settings, [frequency |-> f, amplitude |-> a]),
                          "addInterferer", 0)
  /\ UNCHANGED << ring, pushed, out, osc, bank, scope, frame, analyser, dut, systemVars >>

InterfererRemoved ==
  /\ settings # NULL
  /\ settings.calls < MaxInterfererCalls
  /\ \E id \in 1..MaxInterfererCalls :
       settings' = Called(RemoveInterferer(settings, id), "removeInterferer", id)
  /\ UNCHANGED << ring, pushed, out, osc, bank, scope, frame, analyser, dut, systemVars >>

InterfererUpdated ==
  /\ settings # NULL
  /\ settings.calls < MaxInterfererCalls
  /\ \E id \in 1..MaxInterfererCalls, updates \in InterfererUpdates :
       settings' = Called(UpdateInterferer(settings, id, updates),
                          "updateInterferer", id)
  /\ UNCHANGED << ring, pushed, out, osc, bank, scope, frame, analyser, dut, systemVars >>

SignalSourceReset ==
  /\ settings # NULL
  /\ settings.calls < MaxInterfererCalls
  /\ settings' = Called(ResetSignalSource(settings), "reset", 0)
  /\ UNCHANGED << ring, pushed, out, osc, bank, scope, frame, analyser, dut, systemVars >>

NextInterferers ==
  InterfererAdded \/ InterfererRemoved \/ InterfererUpdated \/ SignalSourceReset

SpecInterferers == InitSettings /\ [][NextInterferers]_vars

Interferers == settings.signalSource.interferers

\* C25: every interferer in the list has a frequency of at least 1 Hz and an
\* amplitude of at least 0
C25_InterferersInRange ==
  settings # NULL =>
    \A k \in DOMAIN Interferers :
      /\ AtLeast(Interferers[k].frequency, Fin(10))
      /\ AtLeast(Interferers[k].amplitude, Fin(0))

Ids(list) == [k \in DOMAIN list |-> list[k].id]

\* C26: the ids in the list are pairwise distinct, an interferer that enters
\* the list gets an id that was never handed out before, and updateInterferer
\* leaves the ids as they are
C26_InterfererIdsUniqueAndStable ==
  /\ [](settings # NULL =>
          \A j, k \in DOMAIN Interferers :
            Interferers[j].id = Interferers[k].id => j = k)
  /\ [][ settings # NULL =>
           /\ \A k \in DOMAIN Interferers' :
                (\A j \in DOMAIN Interferers : Interferers[j].id # Interferers'[k].id)
                  => Interferers'[k].id \notin settings.assigned
           /\ settings'.last.op = "updateInterferer"
                => Ids(Interferers') = Ids(Interferers) ]_vars

\* two interferers were added, the first was removed, a third was added
C26_Witness ==
  /\ settings # NULL
  /\ settings.last # NULL
  /\ settings.last.op = "addInterferer"
  /\ Ids(Interferers) = << 2, 3 >>
  /\ settings.assigned = {1, 2, 3}

(***************************************************************************)
(* The DUT generators: steps 1 to 3 of the worker's processSample and      *)
(* DUTSimulator.generate.  The sample rate is four samples per reference   *)
(* period, so a phase is a number of quarter turns and its sine is 0, 1,   *)
(* 0 or -1; a phase shift is a multiple of 90 degrees.  The modulation     *)
(* index is held in tenths, and so is a sensor sample.                     *)
(***************************************************************************)
\* SpecDut: the samples per reference period, the samples of a behaviour,
\* the largest sensor amplitude
DutSampleRate == 4
MaxDutSamples == 4
MaxSensorAmplitude == 2

\* Math.sin of a phase of k quarter turns
SinQuarter(k) == << 0, 1, 0, -1 >>[(k % 4) + 1]

\* Oscillator.sine: the value at the current phase, then advancePhase
Sine(o, frequency, amplitude) ==
  [value |-> amplitude * SinQuarter(o.phase), osc |-> OscillatorCall(o, frequency)]

\* steps 1 to 3 of processSample for the signal source p
WorkerDut(g, p) ==
  LET referencePhase == g.referenceOsc.phase
      reference == Sine(g.referenceOsc, p.referenceFrequency, p.referenceAmplitude)
      generated == Sine(g.modulatingOsc, p.modulatingFrequency, 1)
      modulating == IF p.modulationIndex > 0 THEN generated.value ELSE 0
      advanced ==
        IF p.modulationIndex > 0 THEN generated.osc
        ELSE IF p.modulationIndex = 0
        THEN OscillatorCall(g.modulatingOsc, p.modulatingFrequency)
        ELSE g.modulatingOsc
      shiftedPhase == referencePhase + p.phaseShift
      carrier == SinQuarter(shiftedPhase)
  IN  [g EXCEPT !.referenceOsc = reference.osc,
                !.modulatingOsc = advanced,
                !.last = [generator |-> "processSample",
                          shiftedPhase |-> shiftedPhase,
                          modulating |-> modulating,
                          sensor |-> p.sensorOutputAmplitude * carrier
                                       * p.modulationIndex * modulating]]

\* DUTSimulator.generate
SimulatorDut(g, p, modulatingAmplitude) ==
  LET currentReferencePhase == g.referenceOscillator.phase
      reference == Sine(g.referenceOscillator, p.referenceFrequency, p.referenceAmplitude)
      generated == Sine(g.modulatingOscillator, p.modulatingFrequency, 1)
      modulating == IF modulatingAmplitude > 0 THEN generated.value ELSE 0
      shiftedPhase == currentReferencePhase + p.phaseShift
      carrier == SinQuarter(shiftedPhase)
  IN  [g EXCEPT !.referenceOscillator = reference.osc,
                !.modulatingOscillator =
                   IF modulatingAmplitude > 0 THEN generated.osc ELSE @,
                !.currentReferencePhase = currentReferencePhase,
                !.last = [generator |-> "DUTSimulator.generate",
                          shiftedPhase |-> shiftedPhase,
                          modulating |-> modulating,
                          sensor |-> p.sensorOutputAmplitude * carrier
                                       * (10 + p.modulationIndex * modulating)]]

\* the signal sources of SpecDut: modulation index 0, 0.5 and 1
DutSignalSources ==
  [referenceFrequency : {1}, referenceAmplitude : {1},
   modulatingFrequency : {1, 2}, modulationIndex : {0, 5, 10},
   phaseShift : {0, 1}, sensorOutputAmplitude : 1..MaxSensorAmplitude]

WorkerSampleGenerated ==
  /\ dut # NULL
  /\ dut.samples < MaxDutSamples
  /\ dut' = [WorkerDut(dut, dut.signalSource) EXCEPT !.samples = @ + 1]
  /\ UNCHANGED << ring, pushed, out, osc, bank, scope, frame, analyser, settings, systemVars >>

SimulatorSampleGenerated ==
  /\ dut # NULL
  /\ dut.samples < MaxDutSamples
  /\ \E modulatingAmplitude \in {0, 1} :
       dut' = [SimulatorDut(dut, dut.signalSource, modulatingAmplitude)
                 EXCEPT !.samples = @ + 1]
  /\ UNCHANGED << ring, pushed, out, osc, bank, scope, frame, analyser, settings, systemVars >>

InitDut ==
  /\ InitWorker
  /\ InitShared
  /\ InitMain(TRUE)
  /\ inbox = << >>
  /\ outbox = << >>
  /\ handled = [seq |-> 0, msg |-> NULL, armed |-> FALSE, startedAt |-> 0]
  /\ ring = NewCircularBuffer(1)
  /\ pushed = << >>
  /\ out = NoResult
  /\ osc = NewOscillator(1)
  /\ bank = [interferers |-> << >>, phases |-> << >>, sampleRate |-> 1, calls |-> 0]
  /\ scope = NULL
  /\ frame = NULL
  /\ analyser = NULL
  /\ settings = NULL
  /\ \E p \in DutSignalSources :
       dut = [signalSource |-> p,
              referenceOsc |-> NewOscillator(DutSampleRate),
              modulatingOsc |-> NewOscillator(DutSampleRate),
              referenceOscillator |-> NewOscillator(DutSampleRate),
              modulatingOscillator |-> NewOscillator(DutSampleRate),
              currentReferencePhase |-> 0,
              samples |-> 0,
              last |-> NULL]

NextDut == WorkerSampleGenerated \/ SimulatorSampleGenerated

SpecDut == InitDut /\ [][NextDut]_vars

\* C28: the clean sensor sample of either generator is the product
\* A_sensor * sin(theta_ref + phi_shift) * modulationIndex * m, and so it is 0
\* whenever the modulation index is 0
C28_SensorIsSuppressedCarrierProduct ==
  (dut # NULL /\ dut.last # NULL) =>
    /\ dut.last.sensor =
         dut.signalSource.sensorOutputAmplitude * SinQuarter(dut.last.shiftedPhase)
           * dut.signalSource.modulationIndex * dut.last.modulating
    /\ dut.signalSource.modulationIndex = 0 => dut.last.sensor = 0

(***************************************************************************)
(* SpecLive: the worker is initialised and started, is not stopped, and    *)
(* receives parameter updates; timers fire, every task runs to its end,    *)
(* and the clock keeps advancing while it is below the horizon             *)
(***************************************************************************)
\* messages the environment delivers in SpecLive
MaxMsgsLive == 3

UpdateMessages == { UpdateParamsMessage(q) : q \in PartialParams }

LiveMessages ==
  IF handled.armed THEN UpdateMessages
  ELSE { InitMessage, StartMessage(DefaultParams) } \cup UpdateMessages

NextLive ==
  \/ Deliver(LiveMessages, MaxMsgsLive, ClockSteps, MaxNow)
  \/ TimerFire
  \/ Tick(ClockSteps, MaxNow)
  \/ WriteChannel
  \/ SwapBuffers
  \/ PostFrameReady
  \/ HandleFrameReady

\* the event loop runs a timeout that is due and runs each task to its end;
\* a tick reads a clock that has advanced, again and again
WorkerStep ==
  \/ TimerFire
  \/ Tick(ClockSteps, MaxNow)
  \/ WriteChannel
  \/ SwapBuffers
  \/ PostFrameReady

SpecLive ==
  /\ Init
  /\ [][NextLive]_vars
  /\ WF_vars(WorkerStep)
  /\ SF_vars(Tick({UPDATE_INTERVAL}, MaxNow))

\* a timeout is pending, or simulationLoop is running and will set one
TickPending ==
  pc # "idle" \/ simulationTimeoutId = "live" \/ orphanTimers > 0

\* C27: after Init and then Start, with no Stop, a tick is pending at every
\* moment, and while the clock has a snapshot interval left to advance, a
\* worker between two tasks goes on to post another frame, whatever updates
\* arrive
C27_TicksPendingAndFramesKeepComing ==
  /\ [](handled.armed => TickPending)
  /\ (handled.armed /\ pc = "idle" /\ lastUpdateTime + 2 * UPDATE_INTERVAL <= MaxNow)
       ~> (pc = "post")

\* two frames were posted and an update was handled after the first
C27_Witness ==
  /\ handled.armed
  /\ handled.msg.type = "updateParams"
  /\ snapSeq = 2
  /\ pc = "idle"
  /\ Len(outbox) + (IF storeBuffers = NULL THEN 0 ELSE storeBuffers.snap) >= 2

(***************************************************************************)
(* Properties of lastSampleTime                                            *)
(***************************************************************************)
\* SpecSubSample: the worker at 60 samples/s, one sample per 50 clock units,
\* with ticks that come half a sample period after the last reading
SubSampleSteps == {0, 25, 50}

SubSampleMessages == { InitMessage, StartMessage(DefaultParams) }

NextSubSample ==
  \/ Deliver(SubSampleMessages, MaxMsgsPacing, SubSampleSteps, MaxNow)
  \/ TimerFire
  \/ Tick(SubSampleSteps, MaxNow)
  \/ WriteChannel
  \/ SwapBuffers
  \/ PostFrameReady

SpecSubSample == Init /\ [][NextSubSample]_vars

\* C30 as stated: after every scheduler tick lastSampleTime is the clock
\* reading of that tick, also on a tick on which no sample is due.
C30_LastSampleTimeIsTickClock ==
  [][ TickTaken => lastSampleTime' = now' ]_vars

\* C30 as amended: a tick on which at least one sample is due leaves
\* lastSampleTime at the clock reading of that tick; a tick on which none is
\* due leaves lastSampleTime as it was.
C30_LastSampleTimeFollowsDue ==
  [][ TickTaken =>
        lastSampleTime' = (IF Due > 0 THEN now' ELSE lastSampleTime)
    ]_vars

\* a tick came 25 clock units, half a sample period, after the reading kept
\* in lastSampleTime and processed nothing
C30_Witness ==
  /\ isRunning
  /\ pc = "idle"
  /\ simulationTimeoutId = "live"
  /\ now = lastSampleTime + 25
  /\ sampleCounter > 0

(***************************************************************************)
(* SpecSameParams: updateParams messages that name fields with the values  *)
(* the worker already holds                                                *)
(***************************************************************************)
SameParamsMessages ==
  { InitMessage,
    StartMessage(DefaultParams),
    UpdateParamsMessage([signalSource |->
                           [referenceFrequency |->
                              DefaultSignalSource.referenceFrequency]]),
    UpdateParamsMessage([lowPassFilter |-> DefaultLowPassFilter]),
    UpdateParamsMessage([mixer |-> [mode |-> "analog"]]),
    UpdateParamsMessage([signalSource |->
                           [phaseShift |-> DefaultSignalSource.phaseShift]]),
    UpdateParamsMessage(DefaultParams) }

NextSameParams ==
  \/ Deliver(SameParamsMessages, MaxMsgs, ClockSteps, MaxNow)
  \/ TimerFire
  \/ Tick(ClockSteps, MaxNow)
  \/ WriteChannel
  \/ SwapBuffers
  \/ PostFrameReady
  \/ HandleFrameReady

SpecSameParams == Init /\ [][NextSameParams]_vars

\* C31: an updateParams whose every supplied field equals the value held
\* leaves the accumulator, the filter states, the contents of the 13 rings
\* and bpfPhaseOffset unchanged.  (After one application every supplied field
\* equals the held value, so a second application of the same message is such
\* an update: applying it twice is then the same as applying it once.)
C31_SameValuesLeaveEngine ==
  [][ (UpdateParamsHandled /\ params' = params) =>
        /\ iSum' = iSum
        /\ qSum' = qSum
        /\ avgCount' = avgCount
        /\ bandPassFilter' = bandPassFilter
        /\ lowPassFilterI' = lowPassFilterI
        /\ lowPassFilterQ' = lowPassFilterQ
        /\ buffers' = buffers
        /\ bpfPhaseOffset' = bpfPhaseOffset
    ]_vars

(***************************************************************************)
(* SpecBank: an InterfererGenerator of its own, with setInterferers calls  *)
(* between generate calls.  A phase is a whole number of steps of          *)
(* 2 pi / sampleRate; Math.random() * 2 * Math.PI is one of these steps.   *)
(***************************************************************************)
MaxBankCalls == 3
MaxBankLength == 1

\* variant for C35: the amplitude-only branch draws the phases again
SetInterferersAlwaysRebuilt(gen, interferers, random) ==
  [gen EXCEPT
     !.interferers = [i \in 1..Len(interferers) |->
                        [frequency |-> interferers[i].frequency,
                         amplitude |-> interferers[i].amplitude,
                         phase     |-> random[i]]],
     !.phases = [i \in 1..Len(interferers) |-> random[i]]]

\* setInterferers; random[i] is the outcome of the i-th Math.random() call of
\* the rebuild
SetInterferersDrawn(gen, interferers, random) ==
  IF SameFrequencies(interferers, gen.interferers)
    THEN [gen EXCEPT !.interferers =
            [i \in 1..Len(gen.interferers) |->
               [gen.interferers[i] EXCEPT !.amplitude = interferers[i].amplitude]]]
    ELSE [gen EXCEPT
            !.interferers = [i \in 1..Len(interferers) |->
                               [frequency |-> interferers[i].frequency,
                                amplitude |-> interferers[i].amplitude,
                                phase     |-> random[i]]],
            !.phases = [i \in 1..Len(interferers) |-> random[i]]]

\* generate: this.phases[i] advances by the frequency of interferers[i] and
\* wraps once; the phase noted in interferers[i] stays as drawn
GenerateSample(gen) ==
  [gen EXCEPT !.phases = [i \in DOMAIN gen.phases |->
                            AdvancePhase(gen.phases[i], gen.interferers[i].frequency,
                                         gen.sampleRate)]]

\* the lists a caller passes, and the outcomes of the draws
InterfererLists ==
  UNION { [1..n -> { Interferer(f, a) : f \in {1, 2, 3}, a \in {1, 2} }] :
            n \in 0..MaxBankLength }

RandomDraws == [1..MaxBankLength -> {0, OscSampleRate - 1}]

InterferersSet ==
  /\ out.returned < MaxBankCalls
  /\ \E interferers \in InterfererLists :
       \E random \in RandomDraws :
         /\ bank' = SetInterferersDrawn(bank, interferers, random)
         /\ out' = [op |-> "setInterferers", arg |-> interferers,
                    result |-> random, returned |-> out.returned + 1]
  /\ UNCHANGED << ring, pushed, osc, uiVars, systemVars >>

SampleGenerated ==
  /\ out.returned < MaxBankCalls
  /\ bank' = GenerateSample(bank)
  /\ out' = [op |-> "generate", arg |-> 0, result |-> << >>,
             returned |-> out.returned + 1]
  /\ UNCHANGED << ring, pushed, osc, uiVars, systemVars >>

InitBank ==
  /\ InitWorker
  /\ InitShared
  /\ InitMain(TRUE)
  /\ inbox = << >>
  /\ outbox = << >>
  /\ handled = [seq |-> 0, msg |-> NULL, armed |-> FALSE, startedAt |-> 0]
  /\ ring = NewCircularBuffer(1)
  /\ pushed = << >>
  /\ out = NoResult
  /\ osc = NewOscillator(1)
  /\ bank = NewInterfererGenerator(OscSampleRate)
  /\ InitUi

NextBank ==
  \/ InterferersSet
  \/ SampleGenerated

SpecBank == InitBank /\ [][NextBank]_vars

SetInterferersCalled == out'.returned # out.returned /\ out'.op = "setInterferers"

MaxFilterCalls == 3

InitFilterOrder ==
  /\ isRunning = FALSE
  /\ params = NULL
  /\ simulationTimeoutId = "null"
  /\ sharedViews = NULL
  /\ maxDisplayPoints = 2500
  /\ referenceOsc = NULL
  /\ modulatingOsc = NULL
  /\ noiseGen = NULL
  /\ interfererGen = NULL
  /\ \E order \in {1, 2, 4} :
       /\ bandPassFilter =
            NewBandPassFilter(DefaultBandPassFilter.centerFrequency,
                              DefaultBandPassFilter.bandwidth,
                              DefaultParams.sampleRate, order)
       /\ lowPassFilterI =
            NewLowPassFilter(DefaultLowPassFilter.cutoffFrequency,
                             DefaultParams.sampleRate, order)
  /\ lowPassFilterQ = NULL
  /\ mixer = NULL
  /\ buffers = NULL
  /\ sampleCounter = 0
  /\ lastSampleTime = 0
  /\ lastUpdateTime = 0
  /\ iSum = 0
  /\ qSum = 0
  /\ avgCount = 0
  /\ bpfPhaseOffset = ZeroPhase
  /\ pc = "idle"
  /\ now = 0
  /\ writeBuffer = 0
  /\ dataLength = 0
  /\ chan = 1
  /\ orphanTimers = 0
  /\ phaseSeed = 0
  /\ InitShared
  /\ InitMain(TRUE)
  /\ inbox = << >>
  /\ outbox = << >>
  /\ handled = [seq |-> 0, msg |-> NULL, armed |-> FALSE, startedAt |-> 0]
  /\ InitUnit

\* what the two filters' calls leave alone
FilterFrame ==
  UNCHANGED << workerVars, loopVars, sharedVars, inbox, outbox, mainVars, handled,
               referenceOsc, modulatingOsc, noiseGen, interfererGen,
               lowPassFilterQ, mixer, buffers, sampleCounter, iSum, qSum,
               avgCount, bpfPhaseOffset, phaseSeed,
               ring, pushed, osc, bank, uiVars >>

\* process(input) on one of the filters
FilterSampleProcessed ==
  /\ out.returned < MaxFilterCalls
  /\ \/ /\ lowPassFilterI' = FilterProcess(lowPassFilterI)
        /\ UNCHANGED bandPassFilter
     \/ /\ bandPassFilter' = FilterProcess(bandPassFilter)
        /\ UNCHANGED lowPassFilterI
  /\ out' = [op |-> "process", arg |-> 0, result |-> << >>,
             returned |-> out.returned + 1]
  /\ FilterFrame

\* setOrder(order) on one of the filters
FilterOrderSet ==
  /\ out.returned < MaxFilterCalls
  /\ \E order \in {1, 2, 4} :
       /\ \/ /\ lowPassFilterI' = LpfSetOrder(lowPassFilterI, order)
             /\ UNCHANGED bandPassFilter
          \/ /\ bandPassFilter' = BpfSetOrder(bandPassFilter, order)
             /\ UNCHANGED lowPassFilterI
       /\ out' = [op |-> "setOrder", arg |-> order, result |-> << >>,
                  returned |-> out.returned + 1]
  /\ FilterFrame

NextFilterOrder ==
  \/ FilterSampleProcessed
  \/ FilterOrderSet

SpecFilterOrder == InitFilterOrder /\ [][NextFilterOrder]_vars

\* C36: a setOrder call that changes the order of a LowPassFilter or of a
\* BandPassFilter, for every pair of distinct orders in {1, 2, 4}, leaves
\* every section of the filter with x1 = x2 = y1 = y2 = 0.
C36_OrderChangeZeroesState ==
  [][ /\ (lowPassFilterI'.order # lowPassFilterI.order
            => FilterStateIsZero(lowPassFilterI'))
      /\ (bandPassFilter'.order # bandPassFilter.order
            => FilterStateIsZero(bandPassFilter'))
    ]_vars

(***************************************************************************)
(* Properties of bpfPhaseOffset                                            *)
(***************************************************************************)
\* the phase of the band-pass sections designed from the held params, at the
\* held reference frequency and sample rate; 0 when the filter is disabled
HeldPhaseOffset ==
  IF params.bandPassFilter.enabled
    THEN BandPassPhaseResponse(params.bandPassFilter.centerFrequency,
                               params.bandPassFilter.bandwidth,
                               params.sampleRate,
                               params.bandPassFilter.order,
                               params.signalSource.referenceFrequency)
    ELSE ZeroPhase

\* C37: after a start and after any updateParams messages, bpfPhaseOffset is
\* 0 if the held band-pass filter is disabled and else the cascaded phase of
\* the sections designed from the held centerFrequency, bandwidth and order
\* at the held referenceFrequency and sampleRate.
C37_PhaseOffsetOfHeldParams ==
  params # NULL => bpfPhaseOffset = HeldPhaseOffset

\* an updateParams moved the band-pass centre and the offset followed it
C37_Witness ==
  /\ params # NULL
  /\ handled.msg.type = "updateParams"
  /\ params.bandPassFilter.centerFrequency = 20
  /\ bpfPhaseOffset.sections[1].f = 20
  /\ bpfPhaseOffset.at = params.signalSource.referenceFrequency

(***************************************************************************)
(* Properties of the trigger pass of TimeScaleControl                      *)
(***************************************************************************)
\* the buffers a pass looks at, and their first and last time stamp
LatestTime(f) == f.time[Len(f.time)]

EarliestTime(f) == f.time[1]

\* the step is a pass of the effect on newly arrived buffers; the last
\* trigger time the pass finds recorded is the one of the state before
FramePass == frame' # frame

\* C32: while a last accepted trigger time is recorded, the last time stamp
\* of the buffers is not before it and is less than a display window after
\* it, a pass accepts no new trigger: the recorded time stays and the trigger
\* on display is the one before or none.
C32_HoldoffAcceptsNoTrigger ==
  [][ ( /\ FramePass
        /\ scope.lastTriggerTime # NULL
        /\ LatestTime(frame') >= scope.lastTriggerTime.some
        /\ LatestTime(frame')
             < scope.lastTriggerTime.some + DisplayWindowSec(scope'.timeScale) )
      => /\ scope'.lastTriggerTime = scope.lastTriggerTime
         /\ scope'.triggerTime \in {scope.triggerTime, NULL}
    ]_vars

\* a pass returned in the holdoff: the trigger on display was cleared, the
\* last trigger time is less than a display window before the end of the
\* buffers, and the buffers hold a rising edge after it
C32_Witness ==
  /\ scope.lastTriggerTime # NULL
  /\ scope.triggerTime = NULL
  /\ LatestTime(frame) >= scope.lastTriggerTime.some
  /\ LatestTime(frame) < scope.lastTriggerTime.some + DisplayWindowSec(scope.timeScale)
  /\ \E i \in 2..Len(frame.time) :
       /\ frame.time[i] > scope.lastTriggerTime.some
       /\ frame.modulating[i - 1] < scope.triggerLevel
       /\ frame.modulating[i] >= scope.triggerLevel

\* the trigger on display is still on display in the buffers f: it is not
\* before their first time stamp and a display window after it is not past
\* their last
StillOnDisplay(s, f) ==
  /\ s.triggerTime # NULL
  /\ s.triggerTime.some >= EarliestTime(f)
  /\ s.triggerTime.some + DisplayWindowSec(s.timeScale) <= LatestTime(f)

\* i is the smallest index, counted from 0, whose time stamp is at least t
SmallestIndexFrom(f, t, i) ==
  /\ i \in 0..(Len(f.time) - 1)
  /\ f.time[i + 1] >= t
  /\ \A j \in 0..(i - 1) : f.time[j + 1] < t

\* the trigger on display was accepted by a search over the buffers f
AcceptedOn(s, f) ==
  /\ s.triggerTime # NULL
  /\ s.triggerIndex # NULL
  /\ s.lastTriggerTime = s.triggerTime
  /\ s.triggerIndex.some \in 1..(Len(f.time) - 1)
  /\ f.time[s.triggerIndex.some + 1] = s.triggerTime.some
  /\ f.modulating[s.triggerIndex.some] < s.triggerLevel
  /\ f.modulating[s.triggerIndex.some + 1] >= s.triggerLevel

\* C33: a pass on new buffers on which the stored trigger time is still on
\* display keeps it, searches for no other and sets triggerIndex to the
\* smallest index whose time stamp is at least the trigger time; on any other
\* buffers the stored trigger is cleared, and the trigger on display after
\* the pass is none or one a search of this pass accepted.
C33_ValidTriggerKeptElseCleared ==
  [][ (FramePass /\ scope.triggerTime # NULL) =>
        IF StillOnDisplay(scope, frame')
          THEN /\ scope'.triggerTime = scope.triggerTime
               /\ scope'.lastTriggerTime = scope.lastTriggerTime
               /\ scope'.triggerIndex # NULL
               /\ SmallestIndexFrom(frame', scope.triggerTime.some,
                                    scope'.triggerIndex.some)
          ELSE \/ scope'.triggerTime = NULL /\ scope'.triggerIndex = NULL
               \/ AcceptedOn(scope', frame')
    ]_vars

\* the trigger on display was kept while the buffers moved on: it stands on
\* their first sample, where no search accepts a trigger
C33_Witness ==
  /\ scope.triggerTime # NULL
  /\ scope.triggerIndex = Some(0)
  /\ scope.triggerTime.some = EarliestTime(frame)
  /\ EarliestTime(frame) > 0

\* the buffers are not longer than the display window
ShortFrame(s, f) ==
  LatestTime(f) - DisplayWindowSec(s.timeScale) <= EarliestTime(f)

\* C34: when the buffers are not longer than the display window, the search
\* runs over [earliestTime, earliestTime + 0.1 * bufferDuration] only: a
\* trigger accepted on such buffers has its time in their first tenth.
C34_ShortFrameTriggersInFirstTenth ==
  (ShortFrame(scope, frame) /\ scope.triggerTime # NULL) =>
    /\ scope.triggerTime.some >= EarliestTime(frame)
    /\ 10 * (scope.triggerTime.some - EarliestTime(frame))
         <= LatestTime(frame) - EarliestTime(frame)

\* a search over the first tenth of eleven samples accepted the rising edge
\* on the second of them
C34_Witness ==
  /\ ShortFrame(scope, frame)
  /\ scope.triggerTime # NULL
  /\ scope.triggerIndex = Some(1)
  /\ scope.triggerTime.some = EarliestTime(frame) + 1
  /\ Len(frame.time) = FrameLength

(***************************************************************************)
(* C38: the number of pending scheduler ticks                              *)
(***************************************************************************)
\* the timeouts set by simulationLoop that have neither fired nor been
\* cleared: the one simulationTimeoutId refers to and those it no longer
\* refers to
PendingTicks ==
  (IF simulationTimeoutId = "live" THEN 1 ELSE 0) + orphanTimers

\* C38: under every sequence of init, start, stop and updateParams messages
\* at most one scheduler tick is pending at any time
C38_AtMostOneTickPending == PendingTicks <= 1

(***************************************************************************)
(* C39: the thirteen rings move together                                   *)
(***************************************************************************)
\* every ring holds as many samples as the reference ring and writes next
\* at the same index
RingsAligned(b) ==
  \A ch \in Channels :
    /\ b[ch].length = b["reference"].length
    /\ b[ch].writeIndex = b["reference"].writeIndex

\* the block just published holds, on every channel, dataLength entries
\* written by this publish, and dataLength is the length toDecimatedArrayInto
\* gives for that channel's ring
PublishedLengthValid ==
  \A ch \in Channels :
    /\ DecimatedLength(buffers[ch], maxDisplayPoints) = dataLength
    /\ \A i \in 0..(dataLength - 1) : stamp[writeBuffer][ch][i] = snapSeq

\* C39: whenever the rings exist they all hold the same number of samples and
\* share the write index, and the dataLength of a frameReady about to be
\* posted is the valid length of every channel of the published block
C39_RingsAlignedAndLengthValid ==
  /\ buffers # NULL => RingsAligned(buffers)
  /\ pc = "post" => PublishedLengthValid

\* a frame is about to be posted from rings that are full and have wrapped
\* past their first slot
C39_Witness ==
  /\ pc = "post"
  /\ dataLength > 0
  /\ buffers["time"].length = buffers["time"].capacity
  /\ buffers["time"].writeIndex > 0
  /\ sampleCounter > buffers["time"].capacity + buffers["time"].writeIndex

(***************************************************************************)
(* SpecWallClock: the worker at 60 samples/s under ticks half a sample     *)
(* period apart, with starts, stops and updates in between; the record of  *)
(* handled messages keeps the clock reading of the last start               *)
(***************************************************************************)
MaxMsgsWallClock == 4

WallClockMessages ==
  { InitMessage, StartMessage(DefaultParams), StopMessage,
    UpdateParamsMessage([signalSource |-> [referenceFrequency |-> 20]]),
    UpdateParamsMessage([signalSource |-> [interferers |-> << >>]]) }

\* the environment posts a message and the worker handles it; a start is
\* handled at the clock reading its two performance.now() calls return
DeliverNoting(messages, maxMessages, steps, horizon) ==
  /\ handled.seq < maxMessages
  /\ \E m \in messages :
       \E d \in (IF m.type = "start" THEN steps ELSE {0}) :
         /\ now + d >= 0
         /\ now + d <= horizon
         /\ OnMessageNoting(m, d, IF m.type = "start" THEN now + d
                                                      ELSE handled.startedAt)
  /\ UNCHANGED << inbox, outbox, mainVars >>

NextWallClock ==
  \/ DeliverNoting(WallClockMessages, MaxMsgsWallClock, SubSampleSteps, MaxNow)
  \/ TimerFire
  \/ Tick(SubSampleSteps, MaxNow)
  \/ WriteChannel
  \/ SwapBuffers
  \/ PostFrameReady

SpecWallClock == Init /\ [][NextWallClock]_vars

\* C40: with a clock that never steps back, the number of samples processed
\* since the last start is at most floor((now - startTime) * sampleRate) at
\* every clock reading, whatever the ticks and the updateParams in between
C40_NeverAheadOfWallTime ==
  params # NULL =>
    sampleCounter <= SamplesToProcess(now - handled.startedAt, params.sampleRate)

\* a run started after time 0 has processed exactly the samples due, through
\* ticks that left part of a sample period over, and the message handled
\* last was an updateParams
C40_Witness ==
  /\ isRunning
  /\ handled.msg # NULL
  /\ handled.msg.type = "updateParams"
  /\ handled.startedAt > 0
  /\ sampleCounter >= 2
  /\ sampleCounter = SamplesToProcess(now - handled.startedAt, params.sampleRate)
  /\ lastSampleTime < now

=============================================================================
